---- MODULE Spec2Model ----
(***************************************************************************)
(* Volatility forecasting pipeline of llm-stock-analyst (src/ml):          *)
(* FeatureEngineering, VolatilityModel.prepare_data and                    *)
(* VolatilityPredictor.predict / predict_batch.                            *)
(*                                                                         *)
(* Numbers.  A missing value (NaN) is the empty tuple, a number v is <<v>>.*)
(* Prices are powers of two, so that log(close[t] / close[t-1]) is an      *)
(* exact integer in units of ln 2.  Every other real-valued column is kept *)
(* in fixed point with Scale units per 1.0, rounding down where float64    *)
(* rounds to nearest.                                                      *)
(***************************************************************************)
EXTENDS Integers, Sequences, FiniteSets, TLC

\* ---------------------------------------------------------------- bounds
MaxRows == 22          \* longest bar series a symbol has at the source
SeedLen == 3           \* period of the close pattern of a series
MaxExp == 2            \* closes are 2^0 .. 2^MaxExp
MaxWindow == 3         \* window_size ranges over 2 .. MaxWindow
Scale == 1000          \* fixed-point units per 1.0
MaxSplitRows == 26     \* longest series in a features file given to prepare_data
MaxBatch == 3          \* longest stock_codes list given to predict_batch
MaxClock == 2          \* clock readings are 1 .. MaxClock
MaxCalls == 2          \* predict calls in flight on one predictor
MaxThreads == 2        \* tool calls in flight in one process
MaxCacheEvents == 2    \* calls and flushes of the data cache in one run

\* ------------------------------------------------------- missing values
NaN == <<>>

Num(v) == <<v>>

IsNaN(x) == x = <<>>

V(x) == x[1]

\* ------------------------------------------------------------ arithmetic
RECURSIVE Pow2(_)
Pow2(k) == IF k = 0 THEN 1 ELSE 2 * Pow2(k - 1)

\* np.log of a power of two, in units of ln 2
RECURSIVE Log2(_)
Log2(x) == IF x <= 1 THEN 0 ELSE 1 + Log2(x \div 2)

RECURSIVE SqrtSearch(_, _, _)
SqrtSearch(x, lo, hi) ==
    IF lo >= hi THEN lo
    ELSE LET mid == (lo + hi + 1) \div 2
         IN  IF mid * mid <= x THEN SqrtSearch(x, mid, hi)
             ELSE SqrtSearch(x, lo, mid - 1)

\* floor of the square root
ISqrt(x) == SqrtSearch(x, 0, 46340)

RECURSIVE SumSeq(_)
SumSeq(s) == IF s = <<>> THEN 0 ELSE Head(s) + SumSeq(Tail(s))

Range(s) == {s[i] : i \in 1..Len(s)}

\* ------------------------------------------------------------- calendar
\* trade_date is a YYYYMMDD number; day k of the model calendar
DateAt(k) == IF k <= 16 THEN 20240115 + k ELSE 20240201 + (k - 17)

\* pd.to_datetime(..., format='%Y%m%d') followed by .dt.month
MonthOf(d) == (d \div 100) % 100

\* .dt.strftime('%Y-%m-%d'): the year, month and day fields of the text
StrFTime(d) == <<d \div 10000, (d \div 100) % 100, d % 100>>

\* .dt.dayofweek (Monday = 0); 2024-01-01 is a Monday
DayOfWeek(d) ==
    LET day == d % 100
        yday == IF MonthOf(d) = 1 THEN day - 1 ELSE 31 + day - 1
    IN  yday % 7

\* ------------------------------------------------------- series helpers
\* a sequence given by a rule, as a tuple of its values
Tup(f) == f \o <<>>

\* Series.shift(k): value of the row k places earlier (later when k < 0)
Shift(s, k) ==
    Tup([i \in 1..Len(s) |->
        IF i - k >= 1 /\ i - k <= Len(s) THEN s[i - k] ELSE NaN])

\* the window of w values ending at position i, or <<>> when it is not full
WindowAt(s, i, w) ==
    IF i < w THEN <<>> ELSE SubSeq(s, i - w + 1, i)

Full(win) == win # <<>> /\ \A j \in 1..Len(win) : ~IsNaN(win[j])

\* sample standard deviation (ddof = 1) of w numbers, in fixed point
SampleStd(win) ==
    LET w == Len(win)
        xs == Tup([j \in 1..w |-> V(win[j])])
        sq == Tup([j \in 1..w |-> V(win[j]) * V(win[j])])
        num == w * SumSeq(sq) - SumSeq(xs) * SumSeq(xs)
    IN  ISqrt((num * Scale * Scale) \div (w * (w - 1)))

\* Series.rolling(window=w).std(): NaN until w non-missing values are seen
RollingStd(s, w) ==
    Tup([i \in 1..Len(s) |->
        LET win == WindowAt(s, i, w)
        IN  IF Full(win) THEN Num(SampleStd(win)) ELSE NaN])

\* mutant: the window is centred on the row (center=True)
RollingMeanCentred(s, w) ==
    Tup([i \in 1..Len(s) |->
        LET win == IF i + 1 > Len(s) THEN <<>> ELSE WindowAt(s, i + 1, w)
        IN  IF Full(win)
            THEN Num((SumSeq(Tup([j \in 1..w |-> V(win[j])])) * Scale) \div w)
            ELSE NaN])

\* mutant: a partial window has a mean too (min_periods=1)
RollingMeanMinPeriods1(s, w) ==
    Tup([i \in 1..Len(s) |->
        LET m == IF i <= w THEN i ELSE w
            win == SubSeq(s, i - m + 1, i)
        IN  IF \A j \in 1..m : ~IsNaN(win[j])
            THEN Num((SumSeq(Tup([j \in 1..m |-> V(win[j])])) * Scale) \div m)
            ELSE NaN])

\* Series.rolling(window=w).mean()
RollingMean(s, w) ==
    Tup([i \in 1..Len(s) |->
        LET win == WindowAt(s, i, w)
        IN  IF Full(win)
            THEN Num((SumSeq(Tup([j \in 1..w |-> V(win[j])])) * Scale) \div w)
            ELSE NaN])

\* ------------------------------------------------------ frame helpers
\* the symbols that have bars, in the order of their codes
AllCodes == <<"A", "B">>

CodeRank(c) == CHOOSE k \in 1..Len(AllCodes) : AllCodes[k] = c

\* lexicographic key of sort_values(by=['ts_code', 'trade_date'])
KeyLess(r1, r2) ==
    \/ CodeRank(r1.ts_code) < CodeRank(r2.ts_code)
    \/ /\ r1.ts_code = r2.ts_code
       /\ r1.trade_date < r2.trade_date

RECURSIVE Insert(_, _)
Insert(sorted, r) ==
    IF sorted = <<>> THEN <<r>>
    ELSE IF KeyLess(r, Head(sorted)) THEN <<r>> \o sorted
    ELSE <<Head(sorted)>> \o Insert(Tail(sorted), r)

\* DataFrame.sort_values(by=['ts_code', 'trade_date']); rows keep their labels
RECURSIVE SortValues(_)
SortValues(df) ==
    IF df = <<>> THEN <<>>
    ELSE Insert(SortValues(SubSeq(df, 1, Len(df) - 1)), df[Len(df)])

\* number of rows of the same symbol at positions <= p (1-based rank in group)
RankIn(df, p) == Cardinality({q \in 1..p : df[q].ts_code = df[p].ts_code})

\* mutant: the computation runs over the whole frame, without groupby
GroupRowsUngrouped(df, c) == df

\* the rows of symbol c, in frame order (one group of groupby('ts_code'))
GroupRows(df, c) == SelectSeq(df, LAMBDA r : r.ts_code = c)

\* df[name] as a series
Column(g, name) == Tup([i \in 1..Len(g) |-> g[i][name]])

CodesOf(df) == {df[p].ts_code : p \in 1..Len(df)}

\* ------------------------------------------------- the external source
RawColumns == <<"ts_code", "trade_date", "open", "high", "low", "close", "vol">>

Max2(a, b) == IF a >= b THEN a ELSE b

Min2(a, b) == IF a <= b THEN a ELSE b

\* close of day k of a series whose exponents repeat with period Len(seed)
CloseAt(seed, k) == Pow2(seed[(k % Len(seed)) + 1])

\* bar k (0-based, ascending date) of the series (c, seed)
Bar(c, seed, k) ==
    LET cl == CloseAt(seed, k)
        op == IF k = 0 THEN cl ELSE CloseAt(seed, k - 1)
    IN  [ts_code |-> c, trade_date |-> DateAt(k),
         open |-> Num(op), high |-> Num(Max2(op, cl)), low |-> Num(Min2(op, cl)),
         close |-> Num(cl), vol |-> Num(1 + ((3 * k + cl) % 5))]

\* the n bars of a series, ascending by date, without index labels
Bars(c, seed, n) == Tup([k \in 1..n |-> Bar(c, seed, k - 1)])

\* close patterns: a flat price, or one with a jump of e doublings at one
\* phase of the period
Seeds ==
    {[i \in 1..SeedLen |-> IF i = j THEN e ELSE 0] :
        j \in 1..SeedLen, e \in 0..MaxExp}

\* row orders in which the source may return its bars
Orders == {"asc", "desc", "rot"}

Reorder(bars, order) ==
    LET n == Len(bars)
    IN  Tup([i \in 1..n |->
            IF order = "asc" THEN bars[i]
            ELSE IF order = "desc" THEN bars[n + 1 - i]
            ELSE bars[(i % n) + 1]])

\* a freshly built DataFrame has the RangeIndex 0 .. n-1 as row labels
WithRangeIndex(rows) ==
    Tup([i \in 1..Len(rows) |-> [idx |-> i - 1] @@ rows[i]])

\* stock_data.get_daily(ts_code, start_date, end_date): the call fails for
\* the symbol "ERR" (the source is unreachable), returns None for any other
\* symbol without bars at the source, and otherwise a frame of the symbol's
\* bars in the source's row order
GetDaily(mkt, c, order) ==
    IF c = "ERR" THEN [error |-> "ConnectionError", none |-> TRUE, rows |-> <<>>]
    ELSE IF c \notin DOMAIN mkt THEN [error |-> "", none |-> TRUE, rows |-> <<>>]
    ELSE [error |-> "", none |-> FALSE,
          rows |-> WithRangeIndex(Reorder(mkt[c], order))]

\* ------------------------------------------- FeatureEngineering (target)
\* np.log(x / x.shift(1)) on one symbol's close series
LogReturn(x) ==
    LET prev == Shift(x, 1)
    IN  Tup([i \in 1..Len(x) |->
            IF IsNaN(x[i]) \/ IsNaN(prev[i]) THEN NaN
            ELSE Num(Log2(V(x[i])) - Log2(V(prev[i])))])

\* x.shift(-1).rolling(window=window_size).std() on one symbol's log returns
FutureVol(lr, window_size) == RollingStd(Shift(lr, -1), window_size)

\* log_return and future_volatility of one symbol's rows g (ascending date)
GroupTarget(g, window_size) ==
    LET lr == LogReturn(Column(g, "close"))
    IN  [log_return |-> lr, future_volatility |-> FutureVol(lr, window_size)]

\* FeatureEngineering.calculate_future_volatility
CalculateFutureVolatilityOp(df0, window_size) ==
    LET df == SortValues(df0)
        tgt == Tup([k \in 1..Len(AllCodes) |->
                      GroupTarget(GroupRows(df, AllCodes[k]), window_size)])
    IN  Tup([p \in 1..Len(df) |->
            [log_return |-> tgt[CodeRank(df[p].ts_code)].log_return[RankIn(df, p)],
             future_volatility |->
                 tgt[CodeRank(df[p].ts_code)].future_volatility[RankIn(df, p)]]
            @@ df[p]])

\* columns after df[name] = ...: an existing column keeps its place
AddColumn(cols, name) ==
    IF name \in Range(cols) THEN cols ELSE Append(cols, name)

RECURSIVE AddColumns(_, _)
AddColumns(cols, names) ==
    IF names = <<>> THEN cols
    ELSE AddColumns(AddColumn(cols, Head(names)), Tail(names))

TargetColumns(cols) == AddColumns(cols, <<"log_return", "future_volatility">>)

\* ----------------------------------------- FeatureEngineering (features)
\* a series of raw numbers in fixed point
ToFix(s) ==
    Tup([i \in 1..Len(s) |-> IF IsNaN(s[i]) THEN NaN ELSE Num(V(s[i]) * Scale)])

\* Series.ewm(alpha = a / b, adjust=False).mean() of a fixed-point series:
\* missing until the first observation, which starts the average
RECURSIVE Ewm(_, _, _)
Ewm(s, a, b) ==
    IF s = <<>> THEN <<>>
    ELSE LET front == Ewm(SubSeq(s, 1, Len(s) - 1), a, b)
             prev == IF front = <<>> THEN NaN ELSE front[Len(front)]
             x == s[Len(s)]
         IN  Append(front,
                 IF IsNaN(x) THEN prev
                 ELSE IF IsNaN(prev) THEN x
                 ELSE Num((a * V(x) + (b - a) * V(prev)) \div b))

\* Series.diff(1)
Diff(s) ==
    LET prev == Shift(s, 1)
    IN  Tup([i \in 1..Len(s) |->
            IF IsNaN(s[i]) \/ IsNaN(prev[i]) THEN NaN
            ELSE Num(V(s[i]) - V(prev[i]))])

\* diff.mask(diff < 0, 0)
Gain(d) ==
    Tup([i \in 1..Len(d) |->
        IF IsNaN(d[i]) THEN NaN ELSE IF V(d[i]) < 0 THEN Num(0) ELSE d[i]])

\* diff.mask(diff > 0, 0).abs()
Loss(d) ==
    Tup([i \in 1..Len(d) |->
        IF IsNaN(d[i]) THEN NaN ELSE IF V(d[i]) > 0 THEN Num(0) ELSE Num(0 - V(d[i]))])

\* mutant: the index is the ratio itself in percent, rsi = 100 * rs
RsiOfRatio(g, l) ==
    IF IsNaN(g) \/ IsNaN(l) THEN NaN
    ELSE IF V(l) = 0 THEN (IF V(g) = 0 THEN NaN ELSE Num(100 * Scale))
    ELSE Num((100 * V(g) * Scale) \div V(l))

\* rs = avg_gain / avg_loss; rsi = 100 - (100 / (1 + rs)), with the float
\* results x / 0 = inf (so rsi = 100) and 0 / 0 = NaN
RsiOf(g, l) ==
    IF IsNaN(g) \/ IsNaN(l) THEN NaN
    ELSE IF V(l) = 0 THEN (IF V(g) = 0 THEN NaN ELSE Num(100 * Scale))
    ELSE LET rs == (V(g) * Scale) \div V(l)
         IN  Num(100 * Scale - ((100 * Scale * Scale) \div (Scale + rs)))

\* calculate_rsi(series, window) inside add_features
calculate_rsi(series, window) ==
    LET diff == Diff(series)
        avg_gain == Ewm(ToFix(Gain(diff)), 1, window)
        avg_loss == Ewm(ToFix(Loss(diff)), 1, window)
    IN  Tup([i \in 1..Len(series) |-> RsiOf(avg_gain[i], avg_loss[i])])

Minus(s1, s2) ==
    Tup([i \in 1..Len(s1) |->
        IF IsNaN(s1[i]) \/ IsNaN(s2[i]) THEN NaN ELSE Num(V(s1[i]) - V(s2[i]))])

\* the derived columns of one symbol's rows g (frame order), one record per row
GroupFeatures(g) ==
    LET close == Column(g, "close")
        vol == Column(g, "vol")
        lr == Column(g, "log_return")
        c1 == Shift(close, 1)
        c3 == Shift(close, 3)
        c5 == Shift(close, 5)
        v1 == Shift(vol, 1)
        v3 == Shift(vol, 3)
        v5 == Shift(vol, 5)
        r1 == Shift(lr, 1)
        r3 == Shift(lr, 3)
        r5 == Shift(lr, 5)
        ma5 == RollingMean(close, 5)
        ma10 == RollingMean(close, 10)
        ma20 == RollingMean(close, 20)
        rsi == calculate_rsi(close, 14)
        ema_fast == Ewm(ToFix(close), 2, 13)
        ema_slow == Ewm(ToFix(close), 2, 27)
        macd == Minus(ema_fast, ema_slow)
        signal == Ewm(macd, 2, 10)
        hist == Minus(macd, signal)
    IN  Tup([i \in 1..Len(g) |->
          [close_lag1 |-> c1[i], close_lag3 |-> c3[i], close_lag5 |-> c5[i],
           vol_lag1 |-> v1[i], vol_lag3 |-> v3[i], vol_lag5 |-> v5[i],
           log_return_lag1 |-> r1[i], log_return_lag3 |-> r3[i],
           log_return_lag5 |-> r5[i],
           MA_close_5 |-> ma5[i], MA_close_10 |-> ma10[i], MA_close_20 |-> ma20[i],
           RSI_14 |-> rsi[i],
           MACD |-> macd[i], Signal_Line |-> signal[i], MACD_Histogram |-> hist[i],
           day_of_week |-> Num(DayOfWeek(g[i].trade_date)),
           month |-> Num(MonthOf(g[i].trade_date))]])

\* FeatureEngineering.add_features: rows keep their order and labels
AddFeaturesOp(df) ==
    LET feat == Tup([k \in 1..Len(AllCodes) |->
                        GroupFeatures(GroupRows(df, AllCodes[k]))])
    IN  Tup([p \in 1..Len(df) |->
                feat[CodeRank(df[p].ts_code)][RankIn(df, p)] @@ df[p]])

RemoveColumns(cols, names) == SelectSeq(cols, LAMBDA c : c \notin names)

FeatureColumns(cols) ==
    AddColumns(
        RemoveColumns(
            AddColumns(cols,
                <<"close_lag1", "close_lag3", "close_lag5",
                  "vol_lag1", "vol_lag3", "vol_lag5",
                  "log_return_lag1", "log_return_lag3", "log_return_lag5",
                  "MA_close_5", "MA_close_10", "MA_close_20", "RSI_14",
                  "EMA_fast", "EMA_slow", "MACD", "Signal_Line", "MACD_Histogram">>),
            {"EMA_fast", "EMA_slow"}),
        <<"day_of_week", "month">>)

\* DataFrame.dropna(subset=cols): the rows with no missing value in cols
DropNa(df, cols) ==
    SelectSeq(df, LAMBDA r : \A c \in cols : ~IsNaN(r[c]))

ValueColumns(cols) == Range(cols) \ {"ts_code", "trade_date"}

\* mutant: only the generated columns are looked at, dropna(subset=...)
CleanDataGeneratedOnly(df, cols) ==
    DropNa(df, ValueColumns(cols) \ Range(RawColumns))

\* FeatureEngineering.clean_data
CleanDataOp(df, cols) == DropNa(df, ValueColumns(cols))

\* ------------------------------------------------------------ the learner
\* LGBMRegressor.predict on one feature vector: a fixed function of the
\* vector, standing for the fitted trees (fixed-point volatility, >= 0)
LearnerPredict(mdl, x) ==
    mdl.bias + mdl.dow * V(x.day_of_week) + mdl.lag * V(x.close_lag1)
        + V(x.vol) + (V(x.RSI_14) \div 100)

FittedModel == [bias |-> 5, dow |-> 100, lag |-> 10]

\* ---------------------------------------------------------------- metrics
Abs(a) == IF a < 0 THEN 0 - a ELSE a

\* product of two fixed-point numbers
FxMul(a, b) == (a * b) \div Scale

Mean(s) == SumSeq(s) \div Len(s)

mean_absolute_error(y_true, y_pred) ==
    Mean(Tup([i \in 1..Len(y_true) |-> Abs(y_true[i] - y_pred[i])]))

mean_squared_error(y_true, y_pred) ==
    Mean(Tup([i \in 1..Len(y_true) |->
            FxMul(y_true[i] - y_pred[i], y_true[i] - y_pred[i])]))

\* mutant: a score is given for a single sample too
r2_score_single_sample(y_true, y_pred) ==
    LET n == Len(y_true)
        mu == Mean(y_true)
        ss_res == SumSeq(Tup([i \in 1..n |->
                     FxMul(y_true[i] - y_pred[i], y_true[i] - y_pred[i])]))
        ss_tot == SumSeq(Tup([i \in 1..n |-> FxMul(y_true[i] - mu, y_true[i] - mu)]))
    IN  IF ss_tot = 0 THEN (IF ss_res = 0 THEN Num(Scale) ELSE Num(0))
        ELSE Num(Scale - ((ss_res * Scale) \div ss_tot))

\* sklearn.metrics.r2_score: NaN for fewer than two samples; with a constant
\* y_true the score is 1.0 for a perfect fit and 0.0 otherwise
r2_score(y_true, y_pred) ==
    LET n == Len(y_true)
        mu == Mean(y_true)
        ss_res == SumSeq(Tup([i \in 1..n |->
                     FxMul(y_true[i] - y_pred[i], y_true[i] - y_pred[i])]))
        ss_tot == SumSeq(Tup([i \in 1..n |-> FxMul(y_true[i] - mu, y_true[i] - mu)]))
    IN  IF n < 2 THEN NaN
        ELSE IF ss_tot = 0 THEN (IF ss_res = 0 THEN Num(Scale) ELSE Num(0))
        ELSE Num(Scale - ((ss_res * Scale) \div ss_tot))

\* ----------------------------------------------------- VolatilityPredictor
\* mutant: the target stays among the serving columns
columns_to_drop_without_target == {"ts_code", "trade_date", "log_return"}

\* columns_to_drop of predict
columns_to_drop == {"ts_code", "trade_date", "log_return", "future_volatility"}

\* df[cols]: the rows cut down to the columns cols; labels are kept
Project(df, cols) ==
    Tup([p \in 1..Len(df) |-> [c \in cols \cup {"idx"} |-> df[p][c]]])

Index(df) == Tup([p \in 1..Len(df) |-> df[p].idx])

\* Index.get_indexer(labels): position (1-based here) of each label
GetIndexer(index, labels) ==
    Tup([j \in 1..Len(labels) |-> CHOOSE p \in 1..Len(index) : index[p] = labels[j]])

\* left.intersection(right) of two label sequences, in the order of left
Intersection(left, right) == SelectSeq(left, LAMBDA l : l \in Range(right))

\* DataFrame.loc[label]
Loc(df, label) == df[CHOOSE p \in 1..Len(df) : df[p].idx = label]

\* VolatilityPredictor._prepare_features
PrepareFeatures(df, window_size) ==
    AddFeaturesOp(CalculateFutureVolatilityOp(df, window_size))

NoLocals ==
    [feature_cols |-> <<>>, X |-> <<>>, predictions |-> <<>>,
     common_index |-> <<>>, df_feat |-> <<>>]

\* the metrics dict of predict; a NaN metric is reported as None, and both
\* are the missing value here
PredictMetrics(actual, predictions_aligned) ==
    IF Len(actual) > 0
    THEN [mae |-> Num(mean_absolute_error(actual, predictions_aligned)),
          mse |-> Num(mean_squared_error(actual, predictions_aligned)),
          rmse |-> Num(ISqrt(mean_squared_error(actual, predictions_aligned) * Scale)),
          r2 |-> r2_score(actual, predictions_aligned)]
    ELSE [mae |-> NaN, mse |-> NaN,
          rmse |-> NaN, r2 |-> NaN]

\* mutant: the scored rows are taken to be the last rows of X
AlignedFromEnd(X, df_valid, common_index) ==
    Tup([j \in 1..Len(common_index) |-> j + (Len(X) - Len(common_index))])

\* positions in X of the rows whose predictions are scored
AlignedPositions(X, df_valid, common_index) == GetIndexer(Index(X), common_index)

\* the rows of df_feat that predict lists in result['predictions']
PredictedRows(df_feat, common_index) ==
    Tup([j \in 1..Len(common_index) |-> Loc(df_feat, common_index[j])])

\* mutant: the fetch is made again when the source fails or has no bars
GetStockDataCallsRetry(ts_code, src) ==
    IF src.error # "" \/ src.none \/ src.rows = <<>> THEN <<ts_code, ts_code>>
    ELSE <<ts_code>>

\* _get_stock_data(ts_code, days): the get_daily calls it makes, src being
\* what the source answers
GetStockDataCalls(ts_code, src) == <<ts_code>>

\* VolatilityPredictor.predict from the answer src of the source on: the
\* exception it raises, or its result dict, together with the locals the
\* result is built from
PredictFrom(src, mdl, ts_code, window_size) ==
        IF src.error # ""
        THEN [raised |-> src.error, result |-> <<>>, locals |-> NoLocals]
        ELSE IF src.none \/ src.rows = <<>>
        THEN [raised |-> "ValueError: no data", result |-> <<>>, locals |-> NoLocals]
        ELSE
        LET df == src.rows
            df_feat == PrepareFeatures(df, window_size)
            columns == FeatureColumns(TargetColumns(RawColumns))
            feature_cols == RemoveColumns(columns, columns_to_drop)
            X == DropNa(Project(df_feat, Range(feature_cols)), Range(feature_cols))
        IN  IF Len(X) = 0
            THEN [raised |-> "ValueError: no valid rows", result |-> <<>>,
                  locals |-> NoLocals]
            ELSE
            LET predictions == Tup([i \in 1..Len(X) |-> LearnerPredict(mdl, X[i])])
                df_valid == DropNa(df_feat, {"future_volatility"})
                common_index == Intersection(Index(df_valid), Index(X))
                at == AlignedPositions(X, df_valid, common_index)
                predictions_aligned ==
                    Tup([j \in 1..Len(common_index) |-> predictions[at[j]]])
                actual == Tup([j \in 1..Len(common_index) |->
                             V(Loc(df_valid, common_index[j]).future_volatility)])
                df_pred == PredictedRows(df_feat, common_index)
            IN  [raised |-> "",
                 result |->
                   [ts_code |-> ts_code,
                    total_records |-> Len(df),
                    valid_predictions |-> Len(actual),
                    predictions |->
                      Tup([j \in 1..Len(df_pred) |->
                         [trade_date |-> df_pred[j].trade_date,
                          predicted_volatility |-> predictions_aligned[j]]]),
                    metrics |-> PredictMetrics(actual, predictions_aligned),
                    actual_vs_predicted |->
                      Tup([j \in 1..Len(common_index) |->
                         <<StrFTime(Loc(df_valid, common_index[j]).trade_date),
                           actual[j], predictions_aligned[j]>>])],
                 locals |->
                   [feature_cols |-> feature_cols, X |-> X,
                    predictions |-> predictions,
                    common_index |-> common_index, df_feat |-> df_feat]]

\* VolatilityPredictor.predict(ts_code, days, window_size) against the source
\* mkt returning its rows in the given order
PredictOp(mkt, mdl, ts_code, window_size, order) ==
    PredictFrom(GetDaily(mkt, ts_code, order), mdl, ts_code, window_size)

\* ------------------------------------------------ get_stock_kline_dataset
\* DataFrame.drop_duplicates(): a row equal in every column to an earlier
\* row is removed
RECURSIVE DropDuplicates(_)
DropDuplicates(rows) ==
    IF rows = <<>> THEN <<>>
    ELSE LET front == DropDuplicates(SubSeq(rows, 1, Len(rows) - 1))
             r == rows[Len(rows)]
         IN  IF r \in Range(front) THEN front ELSE Append(front, r)

RECURSIVE Concat(_)
Concat(frames) ==
    IF frames = <<>> THEN <<>> ELSE Head(frames) \o Concat(Tail(frames))

DropIndex(df) ==
    Tup([p \in 1..Len(df) |-> [c \in DOMAIN df[p] \ {"idx"} |-> df[p][c]]])

\* the stock pool, in file order
Pool == AllCodes

\* the frames get_stock_kline_dataset collects: one per symbol with data
AllData(mkt, order) ==
    LET got == Tup([i \in 1..Len(Pool) |-> GetDaily(mkt, Pool[i], order)])
        kept == SelectSeq(Tup([i \in 1..Len(Pool) |-> i]),
                          LAMBDA i : ~got[i].none /\ got[i].rows # <<>>)
    IN  Tup([j \in 1..Len(kept) |->
            Tup([p \in 1..Len(got[kept[j]].rows) |->
                [ts_code |-> Pool[kept[j]]] @@ got[kept[j]].rows[p]])])

\* concat(ignore_index) / drop_duplicates / sort_values / reset_index(drop)
KlineDataset(all_data) ==
    WithRangeIndex(DropIndex(SortValues(
        WithRangeIndex(DropDuplicates(DropIndex(Concat(all_data)))))))

\* to_csv(index=False) followed by read_csv: the labels are not stored
ReadCsv(df) == WithRangeIndex(DropIndex(df))

\* ------------------------------------------- VolatilityModel.prepare_data
\* columns_to_drop of prepare_data
train_columns_to_drop ==
    {"ts_code", "trade_date", "log_return", "future_volatility"}

\* int(total_samples * ratio) for a ratio given in percent
SegmentSize(total_samples, ratio_pct) == (total_samples * ratio_pct) \div 100

MinDate(df, labels) ==
    CHOOSE d \in {Loc(df, l).trade_date : l \in labels} :
        \A l \in labels : d <= Loc(df, l).trade_date

\* ascending sequence of a set of labels
RECURSIVE Ascending(_)
Ascending(labels) ==
    IF labels = {} THEN <<>>
    ELSE LET m == CHOOSE l \in labels : \A k \in labels : l <= k
         IN  <<m>> \o Ascending(labels \ {m})

\* mutant: the rows stay in file order
FileOrder(df, labels) == {Ascending(labels)}

\* the label orders sort_values(by='trade_date') can produce: the sort is
\* not stable, rows of equal date come out in any order
RECURSIVE SortedByDate(_, _)
SortedByDate(df, labels) ==
    IF labels = {} THEN {<<>>}
    ELSE UNION {{<<l>> \o t : t \in SortedByDate(df, labels \ {l})} :
                l \in {m \in labels : Loc(df, m).trade_date = MinDate(df, labels)}}

\* frame.reindex(index): the rows of frame in the order of the labels
Reindex(frame, index) == Tup([i \in 1..Len(index) |-> Loc(frame, index[i])])

\* mutant: the end position is included in the slice
ILocInclusive(frame, from, to) ==
    SubSeq(frame, Min2(from, Len(frame)) + 1, Min2(to + 1, Len(frame)))

\* frame.iloc[from : to], positions counted from 0, to exclusive
ILoc(frame, from, to) ==
    SubSeq(frame, Min2(from, Len(frame)) + 1, Min2(to, Len(frame)))

\* prepare_data(df, train_ratio, val_ratio) when the date sort yields the
\* label order sorted_index
PrepareDataOp(df, cols, sorted_index, train_pct, val_pct) ==
    LET x_cols == RemoveColumns(cols, train_columns_to_drop)
        X == Reindex(Project(df, Range(x_cols)), sorted_index)
        y == Reindex(Project(df, {"future_volatility"}), sorted_index)
        total_samples == Len(sorted_index)
        train_size == SegmentSize(total_samples, train_pct)
        val_size == SegmentSize(total_samples, val_pct)
    IN  [columns |-> x_cols,
         X_train |-> ILoc(X, 0, train_size),
         y_train |-> ILoc(y, 0, train_size),
         X_val |-> ILoc(X, train_size, train_size + val_size),
         y_val |-> ILoc(y, train_size, train_size + val_size),
         X_test |-> ILoc(X, train_size + val_size, total_samples),
         y_test |-> ILoc(y, train_size + val_size, total_samples)]

NoSplit ==
    [columns |-> <<>>, X_train |-> <<>>, y_train |-> <<>>, X_val |-> <<>>,
     y_val |-> <<>>, X_test |-> <<>>, y_test |-> <<>>]

\* ------------------------------------- VolatilityModel: train and evaluate
\* self.model before train or load_model
NoModel == [none |-> TRUE]

\* LGBMRegressor.fit with a fixed random_state: a handle that is a function
\* of the training rows (here through the mean label), standing for the trees
Fit(X_train, y_train) ==
    [bias |-> Mean(Tup([i \in 1..Len(y_train) |-> V(y_train[i].future_volatility)])),
     dow |-> 100, lag |-> 10]

\* the learner's outputs for the rows of X
ModelPredict(mdl, X) == Tup([i \in 1..Len(X) |-> LearnerPredict(mdl, X[i])])

\* _print_metrics: the dict of the four floats; a NaN stays a NaN
PrintMetrics(y_true, y_pred) ==
    [mae |-> Num(mean_absolute_error(y_true, y_pred)),
     mse |-> Num(mean_squared_error(y_true, y_pred)),
     rmse |-> Num(ISqrt(mean_squared_error(y_true, y_pred) * Scale)),
     r2 |-> r2_score(y_true, y_pred)]

\* evaluate(X_test, y_test)
EvaluateOp(mdl, X_test, y_test) ==
    PrintMetrics(Tup([i \in 1..Len(y_test) |-> V(y_test[i].future_volatility)]),
                 ModelPredict(mdl, X_test))

\* ------------------------------------------------- the artifact on disk
\* a path is a directory and a file name
DefaultModelPath == [dir |-> "ml/models", name |-> "volatility_model.pkl"]

\* str(Path(model_path).parent / "model_metadata.json")
MetadataPath(model_path) == [dir |-> model_path.dir, name |-> "model_metadata.json"]

Absent == [kind |-> "absent"]

\* what a file holds after open(..., 'w') and a write that did not finish
Partial == [kind |-> "partial"]

\* pickle.dump(self.model, f): the bytes of the handle (None is picklable)
PickleDump(mdl) ==
    IF mdl = NoModel THEN [kind |-> "pickle", bytes |-> <<>>]
    ELSE [kind |-> "pickle", bytes |-> <<mdl.bias, mdl.dow, mdl.lag>>]

\* pickle.load(f) of bytes written by pickle.dump
PickleLoad(content) ==
    IF content.bytes = <<>> THEN NoModel
    ELSE [bias |-> content.bytes[1], dow |-> content.bytes[2], lag |-> content.bytes[3]]

\* metadata values carry their JSON type: [str], [int], [float] or [obj]
\* json text of a value: a float NaN is written as the token NaN
RECURSIVE JsonEncode(_)
JsonEncode(v) ==
    IF "str" \in DOMAIN v THEN <<"string", v.str>>
    ELSE IF "int" \in DOMAIN v THEN <<"number", v.int, 1>>
    ELSE IF "float" \in DOMAIN v
    THEN (IF IsNaN(v.float) THEN <<"NaN">> ELSE <<"number", V(v.float), Scale>>)
    ELSE <<"object", {<<k, JsonEncode(v.obj[k])>> : k \in DOMAIN v.obj}>>

\* mutant: every JSON number is read as a float
RECURSIVE JsonDecodeFloatsOnly(_)
JsonDecodeFloatsOnly(t) ==
    IF t[1] = "string" THEN [str |-> t[2]]
    ELSE IF t[1] = "NaN" THEN [float |-> NaN]
    ELSE IF t[1] = "number" THEN [float |-> Num((t[2] * Scale) \div t[3])]
    ELSE [obj |-> [k \in {m[1] : m \in t[2]} |->
                     JsonDecodeFloatsOnly((CHOOSE m \in t[2] : m[1] = k)[2])]]

\* json.load of one value
RECURSIVE JsonDecode(_)
JsonDecode(t) ==
    IF t[1] = "string" THEN [str |-> t[2]]
    ELSE IF t[1] = "NaN" THEN [float |-> NaN]
    ELSE IF t[1] = "number"
    THEN (IF t[3] = 1 THEN [int |-> t[2]] ELSE [float |-> Num(t[2])])
    ELSE [obj |-> [k \in {m[1] : m \in t[2]} |->
                     JsonDecode((CHOOSE m \in t[2] : m[1] = k)[2])]]

\* json.dump(final_metadata, f)
JsonDump(metadata) == [kind |-> "json", text |-> JsonEncode([obj |-> metadata])]

\* json.load(f)
JsonLoad(content) == JsonDecode(content.text).obj

\* open(path, mode): the handle is registered; a write mode creates or
\* truncates the file
OpenFile(d, path, mode) ==
    [files |-> IF mode = "w" THEN [d.files EXCEPT ![path] = Partial] ELSE d.files,
     handles |-> d.handles \cup {path}]

WriteFile(d, path, content) == [d EXCEPT !.files[path] = content]

CloseFile(d, path) == [d EXCEPT !.handles = d.handles \ {path}]

\* mutant: f = open(...) without a with statement, closed after the body
\* only when the body did not raise
LeaveOpenOnError(d, path, raised) ==
    IF raised = "" THEN CloseFile(d, path) ELSE d

\* the exit of a with open(...) block: the handle is closed, whether the
\* body raised or not
ExitWith(d, path, raised) == CloseFile(d, path)

\* ------------------------------------ VolatilityModel: save and load
\* datetime.now().isoformat() at clock reading t
IsoFormat(t) == <<"isoformat", t>>

\* default_metadata of save_model, the clock read at t1 and then at t2
DefaultMetadata(model_path, t1, t2) ==
    [model_type |-> [str |-> "LightGBM"],
     task |-> [str |-> "volatility_prediction"],
     target |-> [str |-> "future_volatility (5-day log return std)"],
     training_date |-> [str |-> IsoFormat(t1)],
     saved_at |-> [str |-> IsoFormat(t2)],
     model_path |-> [str |-> model_path]]

\* {**default_metadata, **metadata}: the caller's keys win
MergeMetadata(default_metadata, metadata) == metadata @@ default_metadata

JsonFloats(mt) == [k \in DOMAIN mt |-> [float |-> mt[k]]]

\* the metadata dict run_pipeline passes to save_model
PipelineMetadata(total, sp, test_metrics) ==
    [input_file |-> [str |-> "features.csv"],
     total_samples |-> [int |-> total],
     train_samples |-> [int |-> Len(sp.X_train)],
     val_samples |-> [int |-> Len(sp.X_val)],
     test_samples |-> [int |-> Len(sp.X_test)],
     feature_count |-> [int |-> Len(sp.columns)],
     test_metrics |-> [obj |-> JsonFloats(test_metrics)]]

\* what can go wrong inside save_model
SaveFaults == {"none", "open_model", "dump", "open_metadata", "json"}

\* save_model(metadata) of the object t on the disk d, the fault striking
\* at its step: the disk afterwards, the exception raised and the dict returned
SaveModelOp(t, d, metadata, fault, t1, t2) ==
    LET mp == t.model_path
        jp == t.metadata_path
        d1 == OpenFile(d, mp, "w")
        d2f == ExitWith(d1, mp, "PicklingError")
        d2 == ExitWith(WriteFile(d1, mp, PickleDump(t.model)), mp, "")
        final_metadata == MergeMetadata(DefaultMetadata(mp, t1, t2), metadata)
        d3 == OpenFile(d2, jp, "w")
        d4f == ExitWith(d3, jp, "TypeError")
        d4 == ExitWith(WriteFile(d3, jp, JsonDump(final_metadata)), jp, "")
    IN  IF fault = "open_model"
        THEN [disk |-> d, raised |-> "OSError", returned |-> <<>>]
        ELSE IF fault = "dump"
        THEN [disk |-> d2f, raised |-> "PicklingError", returned |-> <<>>]
        ELSE IF fault = "open_metadata"
        THEN [disk |-> d2, raised |-> "OSError", returned |-> <<>>]
        ELSE IF fault = "json"
        THEN [disk |-> d4f, raised |-> "TypeError", returned |-> <<>>]
        ELSE [disk |-> d4, raised |-> "", returned |-> final_metadata]

\* load_model() of the object t from the disk d: the object and the disk
\* afterwards, the exception raised and the dict returned
LoadModelOp(t, d) ==
    LET mp == t.model_path
        jp == t.metadata_path
        d1 == OpenFile(d, mp, "r")
        d2f == ExitWith(d1, mp, "UnpicklingError")
        d2 == ExitWith(d1, mp, "")
        t2 == [t EXCEPT !.model = PickleLoad(d.files[mp])]
        d3 == OpenFile(d2, jp, "r")
        d4f == ExitWith(d3, jp, "JSONDecodeError")
        d4 == ExitWith(d3, jp, "")
    IN  IF d.files[mp] = Absent
        THEN [trainer |-> t, disk |-> d, raised |-> "FileNotFoundError",
              returned |-> <<>>]
        ELSE IF d.files[mp].kind # "pickle"
        THEN [trainer |-> t, disk |-> d2f, raised |-> "UnpicklingError",
              returned |-> <<>>]
        ELSE IF d.files[jp] = Absent
        THEN [trainer |-> t2, disk |-> d2, raised |-> "FileNotFoundError",
              returned |-> <<>>]
        ELSE IF d.files[jp].kind # "json"
        THEN [trainer |-> t2, disk |-> d4f, raised |-> "JSONDecodeError",
              returned |-> <<>>]
        ELSE [trainer |-> t2, disk |-> d4, raised |-> "",
              returned |-> JsonLoad(d.files[jp])]

\* VolatilityPredictor(model_path): __init__ and _load_model; only the
\* model file is read
NewPredictorOp(d, model_path) ==
    LET d1 == OpenFile(d, model_path, "r")
        d2f == ExitWith(d1, model_path, "UnpicklingError")
        d2 == ExitWith(d1, model_path, "")
    IN  IF d.files[model_path] = Absent
        THEN [predictor |-> [model_path |-> model_path, model |-> NoModel],
              disk |-> d, raised |-> "FileNotFoundError"]
        ELSE IF d.files[model_path].kind # "pickle"
        THEN [predictor |-> [model_path |-> model_path, model |-> NoModel],
              disk |-> d2f, raised |-> "UnpicklingError"]
        ELSE [predictor |-> [model_path |-> model_path,
                             model |-> PickleLoad(d.files[model_path])],
              disk |-> d2, raised |-> ""]

\* ============================================================== the state
VARIABLES
    market,        \* the external source: symbol -> its bars, ascending date
    window_size,   \* the window_size the run is made with
    stage,         \* how far the training run has come
    df,            \* the frame in flight / in the features file
    columns,       \* the column names of df
    split,         \* what prepare_data returned
    served,        \* outcome and locals of the last VolatilityPredictor.predict
    batch,         \* predict_batch: its arguments, loop position and results
    trainer,       \* the VolatilityModel object and what its calls returned
    disk,          \* the files of the artifact and the open file handles
    predictor,     \* the VolatilityPredictor object
    fetches,       \* the get_daily calls the source has received, in order
    calls,         \* predict calls in flight on the shared predictor
    registry,      \* model path -> the metadata save_model wrote with it
    tools,         \* the module state of volatility_tools and its callers
    cache          \* the module state of tsdata.cache and the calls made

vars ==
    <<market, window_size, stage, df, columns, split, served, batch,
      trainer, disk, predictor, fetches, calls, registry, tools, cache>>

NotServed == [raised |-> "", result |-> <<>>, locals |-> NoLocals, call |-> <<>>]

NoBatch ==
    [pc |-> "idle", stock_codes |-> <<>>, i |-> 0, results |-> <<>>,
     success_count |-> 0, raised |-> ""]

Windows == 2..MaxWindow

\* a VolatilityModel() as __init__ leaves it, with the default model_path
NoTrainer ==
    [model |-> NoModel, model_path |-> DefaultModelPath,
     metadata_path |-> MetadataPath(DefaultModelPath),
     test_metrics |-> <<>>, raised |-> "", saved |-> <<>>, loaded |-> <<>>]

Paths == {DefaultModelPath, MetadataPath(DefaultModelPath)}

\* no artifact was ever saved
EmptyDisk == [files |-> [p \in Paths |-> Absent], handles |-> {}]

\* the artifact of an earlier run: the fitted model and the metadata that
\* save_model() writes when called without a metadata dict
ServingDisk ==
    [files |-> [p \in Paths |->
                  IF p = DefaultModelPath THEN PickleDump(FittedModel)
                  ELSE JsonDump(DefaultMetadata(DefaultModelPath, 0, 0))],
     handles |-> {}]

\* a predictor constructed from that artifact
LoadedPredictor == [model_path |-> DefaultModelPath, model |-> FittedModel]

NoPredictor == [model_path |-> DefaultModelPath, model |-> NoModel]

\* no predict call is in flight
NoCalls == <<>>

\* a predict call before its first statement
NewCall(ts_code, order) ==
    [pc |-> "start", ts_code |-> ts_code, order |-> order,
     src |-> <<>>, outcome |-> <<>>]

\* nothing was saved yet
NoRegistry == <<>>

\* volatility_tools as imported: _predictor_instance is None (0), no
\* VolatilityPredictor object was constructed, no tool call is running
NoTools == [instance |-> 0, objects |-> <<>>, threads |-> <<>>]

\* a tool call that has not started
NewThread == [pc |-> "idle", tool |-> "", local |-> 0, returned |-> 0]

\* tsdata.cache as imported: an empty TTLCache (entries in insertion order),
\* and no call made yet
NoCache == [store |-> <<>>, log |-> <<>>]

BSeed == [i \in 1..SeedLen |-> i % (MaxExp + 1)]

\* symbol B either has no bars or a short series
Markets ==
    {[A |-> Bars("A", seed, n), B |-> b] :
        seed \in Seeds, n \in 0..MaxRows,
        b \in {<<>>, Bars("B", BSeed, SeedLen + 2)}}

Init ==
    /\ market \in Markets
    /\ window_size \in Windows
    /\ stage = "raw"
    /\ df = <<>>
    /\ columns = <<>>
    /\ split = NoSplit
    /\ served = NotServed
    /\ batch = NoBatch
    /\ trainer = NoTrainer
    /\ disk = ServingDisk
    /\ predictor = LoadedPredictor
    /\ fetches = <<>>
    /\ calls = NoCalls
    /\ registry = NoRegistry
    /\ tools = NoTools
    /\ cache = NoCache

\* get_stock_kline_dataset: the bars of the pool, merged and written out;
\* pd.concat raises when no symbol of the pool has data
GetStockKlineDataset ==
    /\ stage = "raw"
    /\ \E order \in Orders :
         LET all_data == AllData(market, order)
         IN  /\ fetches' = fetches \o Pool
             /\ IF all_data = <<>>
                THEN /\ stage' = "no_data"
                     /\ UNCHANGED <<df, columns>>
                ELSE /\ stage' = "dataset"
                     /\ df' = KlineDataset(all_data)
                     /\ columns' = RawColumns
    /\ UNCHANGED <<market, window_size, split, served, batch,
                 trainer, disk, predictor,
                 calls, registry, tools, cache>>

\* create_features, step 1: read the file, calculate_future_volatility
CalculateFutureVolatility ==
    /\ stage = "dataset"
    /\ df' = CalculateFutureVolatilityOp(ReadCsv(df), window_size)
    /\ columns' = TargetColumns(columns)
    /\ stage' = "target"
    /\ UNCHANGED <<market, window_size, split, served, batch,
                 trainer, disk, predictor,
                 fetches, calls, registry, tools, cache>>

\* create_features, step 2: add_features
AddFeatures ==
    /\ stage = "target"
    /\ df' = AddFeaturesOp(df)
    /\ columns' = FeatureColumns(columns)
    /\ stage' = "features"
    /\ UNCHANGED <<market, window_size, split, served, batch,
                 trainer, disk, predictor,
                 fetches, calls, registry, tools, cache>>

\* create_features, steps 3 and 4: clean_data, to_csv
CleanData ==
    /\ stage = "features"
    /\ df' = CleanDataOp(df, columns)
    /\ stage' = "cleaned"
    /\ UNCHANGED <<market, window_size, columns, split, served, batch,
                 trainer, disk, predictor,
                 fetches, calls, registry, tools, cache>>

\* run_pipeline: read the features file, prepare_data with the default ratios
PrepareData ==
    /\ stage = "cleaned"
    /\ \E sorted_index \in SortedByDate(ReadCsv(df), Range(Index(ReadCsv(df)))) :
         split' = PrepareDataOp(ReadCsv(df), columns, sorted_index, 70, 15)
    /\ stage' = "prepared"
    /\ UNCHANGED <<market, window_size, df, columns, served, batch,
                 trainer, disk, predictor,
                 fetches, calls, registry, tools, cache>>

\* mutant: a predict that failed returns normally, as predict_batch does
PredictSwallowsErrors ==
    /\ stage \in {"prepared", "ready"}
    /\ predictor.model # NoModel
    /\ \E ts_code \in {"A", "B", "BAD", "ERR"}, order \in Orders :
         /\ served' = [PredictOp(market, predictor.model, ts_code, window_size, order)
                          EXCEPT !.raised = ""]
                        @@ [call |-> <<ts_code, order>>]
         /\ fetches' = fetches \o GetStockDataCalls(ts_code, GetDaily(market, ts_code, order))
    /\ stage' = "served"
    /\ UNCHANGED <<market, window_size, df, columns, split, batch,
                 trainer, disk, predictor,
                 calls, registry, tools, cache>>

\* mutant: predict keeps state on the predictor, here a handle adjusted
\* by the request
PredictUpdatesPredictor ==
    /\ stage \in {"prepared", "ready"}
    /\ predictor.model # NoModel
    /\ \E ts_code \in {"A", "B", "BAD", "ERR"}, order \in Orders :
         /\ served' = PredictOp(market, predictor.model, ts_code, window_size, order)
                        @@ [call |-> <<ts_code, order>>]
         /\ fetches' = fetches \o GetStockDataCalls(ts_code, GetDaily(market, ts_code, order))
    /\ predictor' = [predictor EXCEPT !.model.bias = predictor.model.bias + 1]
    /\ stage' = "served"
    /\ UNCHANGED <<market, window_size, df, columns, split, batch, trainer, disk,
                 calls, registry, tools, cache>>

\* VolatilityPredictor.predict(ts_code, days, window_size) on a constructed
\* predictor, the source returning its rows in some order
Predict ==
    /\ stage \in {"prepared", "ready"}
    /\ predictor.model # NoModel
    /\ \E ts_code \in {"A", "B", "BAD", "ERR"}, order \in Orders :
         /\ served' = PredictOp(market, predictor.model, ts_code, window_size, order)
                        @@ [call |-> <<ts_code, order>>]
         /\ fetches' = fetches \o GetStockDataCalls(ts_code, GetDaily(market, ts_code, order))
    /\ stage' = "served"
    /\ UNCHANGED <<market, window_size, df, columns, split, batch,
                 trainer, disk, predictor,
                 calls, registry, tools, cache>>

\* the same predict call made once more on the same predictor
PredictRepeat ==
    /\ stage = "served"
    /\ served' = PredictOp(market, predictor.model, served.call[1], window_size,
                           served.call[2])
                    @@ [call |-> served.call]
    /\ fetches' = fetches \o GetStockDataCalls(served.call[1],
                     GetDaily(market, served.call[1], served.call[2]))
    /\ stage' = "served_twice"
    /\ UNCHANGED <<market, window_size, df, columns, split, batch,
                 trainer, disk, predictor,
                 calls, registry, tools, cache>>

Next ==
    \/ GetStockKlineDataset
    \/ CalculateFutureVolatility
    \/ AddFeatures
    \/ CleanData
    \/ PrepareData
    \/ Predict

Spec == Init /\ [][Next]_vars

\* ------------------------------------------------------------ predict_batch
\* mutant: a symbol whose predict raised is skipped
SkipOnError(results, code, outcome) ==
    IF outcome.raised = "" THEN Append(results, outcome.result) ELSE results

\* the try / except of the loop body: the result dict of a predict that
\* returned, the marker {ts_code, error} of one that raised
AppendOutcome(results, code, outcome) ==
    IF outcome.raised = "" THEN Append(results, outcome.result)
    ELSE Append(results, [ts_code |-> code, error |-> outcome.raised])

\* mutant: every result dict is counted
SuccessCountAllPayloads(results) ==
    Cardinality({i \in 1..Len(results) : "metrics" \in DOMAIN results[i]})

\* sum(1 for r in results if 'metrics' in r and r['metrics']['mae'] is not None)
SuccessCount(results) ==
    Cardinality({i \in 1..Len(results) :
                    /\ "metrics" \in DOMAIN results[i]
                    /\ ~IsNaN(results[i].metrics.mae)})

RECURSIVE SeqsUpTo(_, _)
SeqsUpTo(S, n) ==
    IF n = 0 THEN {<<>>}
    ELSE SeqsUpTo(S, n - 1)
           \cup {Append(q, x) : q \in {r \in SeqsUpTo(S, n - 1) : Len(r) = n - 1}, x \in S}

\* predict_batch when VolatilityPredictor(model_path) raises: the exception
\* leaves predict_batch before the loop
BatchRaises(stock_codes, raised) ==
    [pc |-> "raised", stock_codes |-> stock_codes, i |-> 0,
     results |-> <<>>, success_count |-> 0, raised |-> raised]

\* predict_batch(stock_codes, ...): the predictor is built, the loop starts
PredictBatchStart ==
    /\ batch.pc = "idle"
    /\ stage \in {"raw", "artifact"}
    /\ \E stock_codes \in SeqsUpTo({"A", "B", "ERR"}, MaxBatch) :
         LET built == NewPredictorOp(disk, DefaultModelPath)
         IN  /\ disk' = built.disk
             /\ predictor' = built.predictor
             /\ batch' = IF built.raised # ""
                         THEN BatchRaises(stock_codes, built.raised)
                         ELSE [pc |-> "loop", stock_codes |-> stock_codes, i |-> 0,
                               results |-> <<>>, success_count |-> 0, raised |-> ""]
    /\ UNCHANGED <<market, window_size, stage, df, columns, split, served,
                 trainer,
                 fetches, calls, registry, tools, cache>>

\* one iteration of the loop over stock_codes
PredictBatchStep ==
    /\ batch.pc = "loop"
    /\ batch.i < Len(batch.stock_codes)
    /\ \E order \in Orders :
         LET code == batch.stock_codes[batch.i + 1]
             outcome == PredictOp(market, predictor.model, code, window_size, order)
         IN  /\ batch' = [batch EXCEPT
                            !.i = batch.i + 1,
                            !.results = AppendOutcome(batch.results, code, outcome)]
             /\ fetches' = fetches \o GetStockDataCalls(code,
                                           GetDaily(market, code, order))
    /\ UNCHANGED <<market, window_size, stage, df, columns, split, served,
                 trainer, disk, predictor,
                 calls, registry, tools, cache>>

\* the summary after the loop
PredictBatchFinish ==
    /\ batch.pc = "loop"
    /\ batch.i = Len(batch.stock_codes)
    /\ batch' = [batch EXCEPT !.pc = "done",
                              !.success_count = SuccessCount(batch.results)]
    /\ UNCHANGED <<market, window_size, stage, df, columns, split, served,
                 trainer, disk, predictor,
                 fetches, calls, registry, tools, cache>>

ConstSeed == [i \in 1..SeedLen |-> 0]

\* sources for the batch: symbol A without bars, with too few bars, with a
\* flat price or with enough history; symbol B with 21 bars
BatchMarkets ==
    {[A |-> Bars("A", BSeed, n), B |-> Bars("B", BSeed, 21)] :
        n \in {0} \cup 19..MaxRows}
      \cup {[A |-> Bars("A", ConstSeed, MaxRows), B |-> Bars("B", BSeed, 21)]}

InitBatch ==
    /\ market \in BatchMarkets
    /\ window_size \in Windows
    /\ stage = "raw"
    /\ df = <<>>
    /\ columns = <<>>
    /\ split = NoSplit
    /\ served = NotServed
    /\ batch = NoBatch
    /\ trainer = NoTrainer
    /\ disk = ServingDisk
    /\ predictor = LoadedPredictor
    /\ fetches = <<>>
    /\ calls = NoCalls
    /\ registry = NoRegistry
    /\ tools = NoTools
    /\ cache = NoCache

NextBatch ==
    \/ PredictBatchStart
    \/ PredictBatchStep
    \/ PredictBatchFinish

SpecBatch == InitBatch /\ [][NextBatch]_vars

\* ------------------------------------------------- prepare_data on any file
\* a source with na bars of symbol A and nb bars of symbol B, same dates
SplitMarket(na, nb) == [A |-> Bars("A", BSeed, na), B |-> Bars("B", BSeed, nb)]

\* the table add_features makes of such a source, its rows in some order
SplitFile(na, nb, w, order) ==
    LET raw == WithRangeIndex(SplitMarket(na, nb).A \o SplitMarket(na, nb).B)
        feat == PrepareFeatures(raw, w)
    IN  Reorder(feat, order)

\* features files: two symbols sharing their dates, rows in any of the orders
InitSplit ==
    /\ window_size \in Windows
    /\ \E na \in 0..MaxSplitRows, nb \in {0} \cup 21..23, order \in Orders :
         /\ market = SplitMarket(na, nb)
         /\ df = SplitFile(na, nb, window_size, order)
    /\ columns = FeatureColumns(TargetColumns(RawColumns))
    /\ stage = "features"
    /\ split = NoSplit
    /\ served = NotServed
    /\ batch = NoBatch
    /\ trainer = NoTrainer
    /\ disk = ServingDisk
    /\ predictor = LoadedPredictor
    /\ fetches = <<>>
    /\ calls = NoCalls
    /\ registry = NoRegistry
    /\ tools = NoTools
    /\ cache = NoCache

NextSplit ==
    \/ CleanData
    \/ PrepareData

SpecSplit == InitSplit /\ [][NextSplit]_vars

\* ------------------------------------------- create_features on any file
\* the bars of a series with the open of bar h missing (none when h = 0)
WithHole(bars, h) ==
    Tup([k \in 1..Len(bars) |->
        IF k = h THEN [bars[k] EXCEPT !.open = NaN] ELSE bars[k]])

\* sources of one symbol long enough to leave rows after cleaning, with at
\* most one empty cell in a raw column
HoleMarkets ==
    {[A |-> WithHole(Bars("A", seed, n), h), B |-> <<>>] :
        seed \in Seeds, n \in 20..MaxRows, h \in 0..MaxRows}

InitClean ==
    /\ market \in HoleMarkets
    /\ window_size \in Windows
    /\ stage = "raw"
    /\ df = <<>>
    /\ columns = <<>>
    /\ split = NoSplit
    /\ served = NotServed
    /\ batch = NoBatch
    /\ trainer = NoTrainer
    /\ disk = ServingDisk
    /\ predictor = LoadedPredictor
    /\ fetches = <<>>
    /\ calls = NoCalls
    /\ registry = NoRegistry
    /\ tools = NoTools
    /\ cache = NoCache

NextClean ==
    \/ GetStockKlineDataset
    \/ CalculateFutureVolatility
    \/ AddFeatures
    \/ CleanData

SpecClean == InitClean /\ [][NextClean]_vars

\* ------------------------------------- sources with a date given twice
\* the bars with a second row for the date of bar k right after it: the
\* same row again, or a row with another close
WithRepeat(bars, k, other) ==
    LET again == IF other
                 THEN [bars[k] EXCEPT !.close = Num(2 * V(bars[k].close)),
                                      !.high = Num(2 * V(bars[k].high))]
                 ELSE bars[k]
    IN  SubSeq(bars, 1, k) \o <<again>> \o SubSeq(bars, k + 1, Len(bars))

\* lengths of the series: a short one and two long enough for predict
DupRows == {3, MaxRows - 2, MaxRows - 1}

DupMarkets ==
    {[A |-> WithRepeat(Bars("A", BSeed, n), k, other), B |-> <<>>] :
        n \in DupRows, k \in {1, 2, 3}, other \in BOOLEAN}

\* the training path starts at the source, the serving path at a predictor
InitDup ==
    /\ market \in DupMarkets
    /\ window_size \in Windows
    /\ stage \in {"raw", "ready"}
    /\ df = <<>>
    /\ columns = <<>>
    /\ split = NoSplit
    /\ served = NotServed
    /\ batch = NoBatch
    /\ trainer = NoTrainer
    /\ disk = ServingDisk
    /\ predictor = LoadedPredictor
    /\ fetches = <<>>
    /\ calls = NoCalls
    /\ registry = NoRegistry
    /\ tools = NoTools
    /\ cache = NoCache

NextDup ==
    \/ GetStockKlineDataset
    \/ CalculateFutureVolatility
    \/ Predict

SpecDup == InitDup /\ [][NextDup]_vars

\* --------------------------------------- artifacts under several paths
\* readings of datetime.now()
Clock == 1..MaxClock

\* model paths: the default one, one more in its directory, one elsewhere
ModelPaths ==
    {DefaultModelPath,
     [dir |-> "ml/models", name |-> "candidate_model.pkl"],
     [dir |-> "ml/archive", name |-> "volatility_model.pkl"]}

\* VolatilityModel(model_path)
NewTrainer(model_path) ==
    [NoTrainer EXCEPT !.model_path = model_path,
                      !.metadata_path = MetadataPath(model_path)]

FilesOf(model_paths) == model_paths \cup {MetadataPath(mp) : mp \in model_paths}

\* the directories hold no artifact and nothing was saved
InitPaths ==
    /\ market = [A |-> <<>>, B |-> <<>>]
    /\ window_size \in Windows
    /\ stage = "paths"
    /\ df = <<>>
    /\ columns = <<>>
    /\ split = NoSplit
    /\ served = NotServed
    /\ batch = NoBatch
    /\ trainer = NoTrainer
    /\ disk = [files |-> [f \in FilesOf(ModelPaths) |-> Absent], handles |-> {}]
    /\ predictor = NoPredictor
    /\ fetches = <<>>
    /\ calls = NoCalls
    /\ registry = [mp \in ModelPaths |-> <<>>]
    /\ tools = NoTools
    /\ cache = NoCache

\* a fitted VolatilityModel(model_path) saves itself at clock reading t; the
\* handle stands for what was fitted for that path at that time
SaveAt ==
    /\ stage \in {"paths", "paths_saved", "paths_loaded"}
    /\ \E mp \in ModelPaths, t \in Clock :
         LET t0 == [NewTrainer(mp) EXCEPT !.model = [FittedModel EXCEPT !.bias = t]]
             done == SaveModelOp(t0, disk, [input_file |-> [str |-> "features.csv"]],
                                 "none", t, t)
         IN  /\ disk' = done.disk
             /\ trainer' = [t0 EXCEPT !.saved = done.returned]
             /\ registry' = [registry EXCEPT ![mp] = done.returned]
    /\ stage' = "paths_saved"
    /\ UNCHANGED <<market, window_size, df, columns, split, served, batch,
                 predictor, fetches, calls, tools, cache>>

\* VolatilityModel(model_path).load_model() on a new object
LoadAt ==
    /\ stage \in {"paths", "paths_saved", "paths_loaded"}
    /\ \E mp \in ModelPaths :
         LET done == LoadModelOp(NewTrainer(mp), disk)
         IN  /\ disk' = done.disk
             /\ trainer' = [done.trainer EXCEPT !.loaded = done.returned,
                                                !.raised = done.raised]
    /\ stage' = "paths_loaded"
    /\ UNCHANGED <<market, window_size, df, columns, split, served, batch,
                 predictor, fetches, calls, registry, tools, cache>>

NextPaths ==
    \/ SaveAt
    \/ LoadAt

SpecPaths == InitPaths /\ [][NextPaths]_vars

\* ------------------------------------------------- run_pipeline and after
\* run_pipeline: train; fit needs training rows, and train scores the
\* validation rows, which fails when there are none
Train ==
    /\ stage = "prepared"
    /\ IF Len(split.X_train) = 0 \/ Len(split.X_val) = 0
       THEN /\ trainer' = [trainer EXCEPT !.raised = "ValueError"]
            /\ stage' = "train_failed"
       ELSE /\ trainer' = [trainer EXCEPT !.model = Fit(split.X_train, split.y_train)]
            /\ stage' = "trained"
    /\ UNCHANGED <<market, window_size, df, columns, split, served, batch,
                 disk, predictor,
                 fetches, calls, registry, tools, cache>>

\* run_pipeline: evaluate(X_test, y_test)
Evaluate ==
    /\ stage = "trained"
    /\ IF Len(split.X_test) = 0
       THEN /\ trainer' = [trainer EXCEPT !.raised = "ValueError"]
            /\ stage' = "evaluate_failed"
       ELSE /\ trainer' = [trainer EXCEPT !.test_metrics =
                               EvaluateOp(trainer.model, split.X_test, split.y_test)]
            /\ stage' = "evaluated"
    /\ UNCHANGED <<market, window_size, df, columns, split, served, batch,
                 disk, predictor,
                 fetches, calls, registry, tools, cache>>

\* run_pipeline: save_model(metadata), which may fail at any of its steps
SaveModel ==
    /\ stage = "evaluated"
    /\ \E fault \in SaveFaults, t1 \in Clock :
         \E t2 \in t1..MaxClock :
            LET done == SaveModelOp(trainer, disk,
                            PipelineMetadata(Len(df), split, trainer.test_metrics),
                            fault, t1, t2)
            IN  /\ disk' = done.disk
                /\ trainer' = [trainer EXCEPT !.saved = done.returned,
                                              !.raised = done.raised]
                /\ stage' = IF done.raised = "" THEN "saved" ELSE "save_failed"
    /\ UNCHANGED <<market, window_size, df, columns, split, served, batch,
                 predictor,
                 fetches, calls, registry, tools, cache>>

\* VolatilityModel().load_model() on a new object; what the run before it
\* saved is kept for reference
LoadModel ==
    /\ stage \in {"saved", "save_failed", "artifact"}
    /\ batch.pc = "idle"
    /\ LET done == LoadModelOp(NoTrainer, disk)
       IN  /\ disk' = done.disk
           /\ trainer' = [done.trainer EXCEPT !.loaded = done.returned,
                                              !.raised = done.raised,
                                              !.saved = trainer.saved]
           /\ stage' = IF done.raised = "" THEN "loaded" ELSE "load_failed"
    /\ UNCHANGED <<market, window_size, df, columns, split, served, batch,
                 predictor,
                 fetches, calls, registry, tools, cache>>

\* VolatilityPredictor(model_path), as _get_predictor constructs it
NewPredictor ==
    /\ stage \in {"saved", "save_failed", "artifact"}
    /\ batch.pc = "idle"
    /\ LET built == NewPredictorOp(disk, DefaultModelPath)
       IN  /\ disk' = built.disk
           /\ predictor' = built.predictor
           /\ served' = [NotServed EXCEPT !.raised = built.raised]
           /\ stage' = IF built.raised = "" THEN "ready" ELSE "no_predictor"
    /\ UNCHANGED <<market, window_size, df, columns, split, batch, trainer,
                 fetches, calls, registry, tools, cache>>

\* predict_stock(ts_code, ...): a predictor is constructed, then predict is
\* called on it
PredictStock ==
    /\ stage = "artifact"
    /\ batch.pc = "idle"
    /\ \E ts_code \in {"A", "B", "BAD", "ERR"}, order \in Orders :
         LET built == NewPredictorOp(disk, DefaultModelPath)
         IN  /\ disk' = built.disk
             /\ predictor' = built.predictor
             /\ served' = (IF built.raised # ""
                           THEN [NotServed EXCEPT !.raised = built.raised]
                           ELSE PredictOp(market, built.predictor.model, ts_code,
                                          window_size, order))
                             @@ [call |-> <<ts_code, order>>]
             /\ fetches' = IF built.raised # "" THEN fetches
                           ELSE fetches \o GetStockDataCalls(ts_code,
                                               GetDaily(market, ts_code, order))
    /\ stage' = "served"
    /\ UNCHANGED <<market, window_size, df, columns, split, batch, trainer,
                 calls, registry, tools, cache>>

\* features files for a training run: some too short to train on
InitTrain ==
    /\ window_size \in Windows
    /\ \E na \in (MaxSplitRows - 1)..MaxSplitRows, nb \in {0, 22}, order \in Orders :
         /\ market = SplitMarket(na, nb)
         /\ df = SplitFile(na, nb, window_size, order)
    /\ columns = FeatureColumns(TargetColumns(RawColumns))
    /\ stage = "features"
    /\ split = NoSplit
    /\ served = NotServed
    /\ batch = NoBatch
    /\ trainer = NoTrainer
    /\ disk \in {EmptyDisk, ServingDisk}
    /\ predictor = NoPredictor
    /\ fetches = <<>>
    /\ calls = NoCalls
    /\ registry = NoRegistry
    /\ tools = NoTools
    /\ cache = NoCache

NextTrain ==
    \/ CleanData
    \/ PrepareData
    \/ Train
    \/ Evaluate
    \/ SaveModel
    \/ LoadModel
    \/ NewPredictor
    \/ Predict
    \/ PredictRepeat

SpecTrain == InitTrain /\ [][NextTrain]_vars

\* what the two files of the artifact can hold: nothing, an unfinished
\* write, or what save_model writes
ArtifactDisks ==
    {[files |-> [p \in Paths |-> IF p = DefaultModelPath THEN mf ELSE jf],
      handles |-> {}] :
        mf \in {Absent, Partial, PickleDump(FittedModel)},
        jf \in {Absent, Partial, JsonDump(DefaultMetadata(DefaultModelPath, 0, 0))}}

InitArtifact ==
    /\ market = [A |-> Bars("A", BSeed, MaxRows), B |-> Bars("B", BSeed, 21)]
    /\ window_size \in Windows
    /\ stage = "artifact"
    /\ df = <<>>
    /\ columns = <<>>
    /\ split = NoSplit
    /\ served = NotServed
    /\ batch = NoBatch
    /\ trainer = NoTrainer
    /\ disk \in ArtifactDisks
    /\ predictor = NoPredictor
    /\ fetches = <<>>
    /\ calls = NoCalls
    /\ registry = NoRegistry
    /\ tools = NoTools
    /\ cache = NoCache

NextArtifact ==
    \/ LoadModel
    \/ NewPredictor
    \/ PredictStock
    \/ PredictBatchStart

SpecArtifact == InitArtifact /\ [][NextArtifact]_vars

\* ------------------------------------------- predict calls that overlap
\* the symbols asked for: two with bars, one unknown, one the source fails on
CallCodes == <<"A", "B", "BAD", "ERR">>

\* the ways to give each call its own symbol
CallPlans ==
    {plan \in [1..MaxCalls -> 1..Len(CallCodes)] :
        \A i, j \in 1..MaxCalls : i < j => plan[i] < plan[j]}

\* sources where A has no bars or a long history, and B just enough bars
CallMarkets ==
    {[A |-> Bars("A", BSeed, n), B |-> Bars("B", BSeed, 21)] :
        n \in {0, MaxRows}}

InitCalls ==
    /\ market \in CallMarkets
    /\ window_size \in Windows
    /\ stage = "calls"
    /\ df = <<>>
    /\ columns = <<>>
    /\ split = NoSplit
    /\ served = NotServed
    /\ batch = NoBatch
    /\ trainer = NoTrainer
    /\ disk = ServingDisk
    /\ predictor = LoadedPredictor
    /\ fetches = <<>>
    /\ \E plan \in CallPlans, orders \in [1..MaxCalls -> Orders] :
         calls = Tup([i \in 1..MaxCalls |-> NewCall(CallCodes[plan[i]], orders[i])])
    /\ registry = NoRegistry
    /\ tools = NoTools
    /\ cache = NoCache

\* predict, line 102: the call's own df, from self._get_stock_data
PredictFetch(i) ==
    /\ stage = "calls"
    /\ calls[i].pc = "start"
    /\ LET src == GetDaily(market, calls[i].ts_code, calls[i].order)
       IN  /\ calls' = [calls EXCEPT ![i].pc = "fetched", ![i].src = src]
           /\ fetches' = fetches \o GetStockDataCalls(calls[i].ts_code, src)
    /\ UNCHANGED <<market, window_size, stage, df, columns, split, served, batch,
                 trainer, disk, predictor,
                 registry, tools, cache>>

\* a predict whose last statements also refit the predictor's model
PredictFinishUpdatesModel(i) ==
    /\ stage = "calls"
    /\ calls[i].pc = "fetched"
    /\ calls' = [calls EXCEPT ![i].pc = "done",
                    ![i].outcome = PredictFrom(calls[i].src, predictor.model,
                                               calls[i].ts_code, window_size)]
    /\ predictor' = [predictor EXCEPT !.model.bias = @ + Scale]
    /\ UNCHANGED <<market, window_size, stage, df, columns, split, served, batch,
                 trainer, disk, fetches,
                 registry, tools, cache>>

\* predict, lines 105-167: features, self.model.predict and the result dict,
\* all on the call's locals; self is only read
PredictFinish(i) ==
    /\ stage = "calls"
    /\ calls[i].pc = "fetched"
    /\ calls' = [calls EXCEPT ![i].pc = "done",
                    ![i].outcome = PredictFrom(calls[i].src, predictor.model,
                                               calls[i].ts_code, window_size)]
    /\ UNCHANGED <<market, window_size, stage, df, columns, split, served, batch,
                 trainer, disk, predictor, fetches,
                 registry, tools, cache>>

NextCalls ==
    \/ \E i \in 1..MaxCalls : PredictFetch(i)
    \/ \E i \in 1..MaxCalls : PredictFinish(i)

SpecCalls == InitCalls /\ [][NextCalls]_vars

\* ---------------------------------------- volatility_tools._get_predictor
\* the three tools of the module; each starts with _get_predictor()
ToolNames ==
    {"predict_stock_volatility", "compare_stocks_volatility",
     "get_volatility_summary"}

Threads == 1..MaxThreads

\* a process whose artifact is on disk, or was never saved
InitTools ==
    /\ market \in {[A |-> <<>>, B |-> <<>>]}
    /\ window_size = MaxWindow
    /\ stage = "tools"
    /\ df = <<>>
    /\ columns = <<>>
    /\ split = NoSplit
    /\ served = NotServed
    /\ batch = NoBatch
    /\ trainer = NoTrainer
    /\ disk \in {ServingDisk, EmptyDisk}
    /\ predictor = NoPredictor
    /\ fetches = <<>>
    /\ calls = NoCalls
    /\ registry = NoRegistry
    /\ tools = [NoTools EXCEPT !.threads = Tup([t \in Threads |-> NewThread])]
    /\ cache = NoCache

\* the agent invokes one of the tools on thread t
ToolCall(t) ==
    /\ stage = "tools"
    /\ tools.threads[t].pc = "idle"
    /\ \E name \in ToolNames :
         tools' = [tools EXCEPT !.threads[t].pc = "check",
                                !.threads[t].tool = name]
    /\ UNCHANGED <<market, window_size, stage, df, columns, split, served, batch,
                 trainer, disk, predictor, fetches, calls, registry, cache>>

\* line 15: if _predictor_instance is None
GetPredictorCheck(t) ==
    /\ stage = "tools"
    /\ tools.threads[t].pc = "check"
    /\ tools' = [tools EXCEPT !.threads[t].pc =
                    IF tools.instance = 0 THEN "construct" ELSE "return"]
    /\ UNCHANGED <<market, window_size, stage, df, columns, split, served, batch,
                 trainer, disk, predictor, fetches, calls, registry, cache>>

\* line 17, right-hand side: VolatilityPredictor() loads the model file; an
\* exception leaves the tool call, with _predictor_instance still None
GetPredictorConstruct(t) ==
    /\ stage = "tools"
    /\ tools.threads[t].pc = "construct"
    /\ LET built == NewPredictorOp(disk, DefaultModelPath)
       IN  /\ disk' = built.disk
           /\ tools' =
                IF built.raised # ""
                THEN [tools EXCEPT !.threads[t].pc = "raised"]
                ELSE [tools EXCEPT !.objects = Append(@, built.predictor),
                                   !.threads[t].local = Len(tools.objects) + 1,
                                   !.threads[t].pc = "assign"]
    /\ UNCHANGED <<market, window_size, stage, df, columns, split, served, batch,
                 trainer, predictor, fetches, calls, registry, cache>>

\* line 17, the store to the global
GetPredictorAssign(t) ==
    /\ stage = "tools"
    /\ tools.threads[t].pc = "assign"
    /\ tools' = [tools EXCEPT !.instance = tools.threads[t].local,
                              !.threads[t].pc = "return"]
    /\ UNCHANGED <<market, window_size, stage, df, columns, split, served, batch,
                 trainer, disk, predictor, fetches, calls, registry, cache>>

\* line 18: return _predictor_instance
GetPredictorReturn(t) ==
    /\ stage = "tools"
    /\ tools.threads[t].pc = "return"
    /\ tools' = [tools EXCEPT !.threads[t].returned = tools.instance,
                              !.threads[t].pc = "done"]
    /\ UNCHANGED <<market, window_size, stage, df, columns, split, served, batch,
                 trainer, disk, predictor, fetches, calls, registry, cache>>

NextTools ==
    \/ \E t \in Threads : ToolCall(t)
    \/ \E t \in Threads : GetPredictorCheck(t)
    \/ \E t \in Threads : GetPredictorConstruct(t)
    \/ \E t \in Threads : GetPredictorAssign(t)
    \/ \E t \in Threads : GetPredictorReturn(t)

SpecTools == InitTools /\ [][NextTools]_vars

\* ------------------------------------------------- tsdata.cache.cached_data
\* Python values: a type and the pieces of the literal (a string is the
\* sequence of its pieces, an int its decimal digits)
PyStr(v) == [t |-> "str", v |-> v]
PyInt(n) == [t |-> "int", v |-> <<ToString(n)>>]
PyBool(b) == [t |-> "bool", v |-> IF b THEN <<"True">> ELSE <<"False">>]
PyNone == [t |-> "NoneType", v |-> <<"None">>]

\* str(x): the text of the value, without its type
Str(x) == x.v

\* bool(x)
Truthy(x) ==
    CASE x.t = "str" -> x.v # <<>>
      [] x.t = "int" -> x.v # <<"0">>
      [] x.t = "bool" -> x.v = <<"True">>
      [] OTHER -> FALSE

\* sep.join(parts)
RECURSIVE Join(_, _)
Join(parts, sep) ==
    IF parts = <<>> THEN <<>>
    ELSE IF Len(parts) = 1 THEN parts[1]
    ELSE parts[1] \o sep \o Join(Tail(parts), sep)

\* sorted(kwargs.items()): the keyword names used here, in their order
KwNames == <<"end_date", "start_date">>

\* kwargs is a set of (name, value) pairs, one pair per name
SortedKwargs(kwargs) ==
    LET names == SelectSeq(KwNames, LAMBDA k : \E kv \in kwargs : kv[1] = k)
    IN  Tup([n \in 1..Len(names) |-> CHOOSE kv \in kwargs : kv[1] = names[n]])

\* wrapper, lines 30-43: key_str of a call
KeyStr(method, args, kwargs) ==
    LET positional ==
            IF method.args_keys # <<>>
            THEN Tup([n \in 1..Len(method.args_keys) |->
                        IF method.args_keys[n] < Len(args)
                        THEN Str(args[method.args_keys[n] + 1]) ELSE <<>>])
            ELSE Tup([n \in 1..Len(args) |->
                        IF Truthy(args[n]) THEN Str(args[n]) ELSE <<>>])
        sorted_kwargs == SortedKwargs(kwargs)
        keywords ==
            Tup([n \in 1..Len(sorted_kwargs) |->
                   <<sorted_kwargs[n][1], "=">> \o Str(sorted_kwargs[n][2])])
    IN  <<method.name, ":">> \o Join(positional \o keywords, <<":">>)

\* the wrapped method: its result is a function of the receiver's class and
\* of every argument, so the result names the call it was computed for
Compute(method, args, kwargs) ==
    [cls |-> method.cls, name |-> method.name, args |-> args, kwargs |-> kwargs]

\* _data_cache[cache_key], or <<>> when the key is not in the cache; the md5
\* digest is taken to be one-to-one on the keys
CacheGet(store, key) ==
    LET at == {n \in 1..Len(store) : store[n].key = key}
    IN  IF at = {} THEN <<>> ELSE <<store[CHOOSE n \in at : TRUE].value>>

\* methods decorated with @cached_data() and with @cached_data(0, 2)
Methods ==
    {[cls |-> "StockData", name |-> "get_daily", args_keys |-> <<>>],
     [cls |-> "IndexData", name |-> "get_daily", args_keys |-> <<>>],
     [cls |-> "StockData", name |-> "get_data", args_keys |-> <<0, 2>>]}

\* positional argument lists of the calls
ArgLists ==
    {<<PyInt(0)>>, <<PyStr(<<>>)>>, <<PyNone>>, <<PyBool(FALSE)>>,
     <<PyInt(1)>>, <<PyStr(<<"1">>)>>,
     <<PyStr(<<"a", ":", "b">>)>>, <<PyStr(<<"a">>), PyStr(<<"b">>)>>,
     <<PyStr(<<"a">>)>>,
     <<PyStr(<<"a">>), PyStr(<<"b">>), PyStr(<<"c">>)>>,
     <<PyStr(<<"a">>), PyStr(<<"x">>), PyStr(<<"c">>)>>}

\* keyword arguments of the calls
KwargSets ==
    {{}, {<<"start_date", PyStr(<<"2024">>)>>}, {<<"start_date", PyStr(<<"2025">>)>>}}

InitCache ==
    /\ market \in {[A |-> <<>>, B |-> <<>>]}
    /\ window_size = MaxWindow
    /\ stage = "cache"
    /\ df = <<>>
    /\ columns = <<>>
    /\ split = NoSplit
    /\ served = NotServed
    /\ batch = NoBatch
    /\ trainer = NoTrainer
    /\ disk = EmptyDisk
    /\ predictor = NoPredictor
    /\ fetches = <<>>
    /\ calls = NoCalls
    /\ registry = NoRegistry
    /\ tools = NoTools
    /\ cache = NoCache

\* wrapper(self, *args, **kwargs)
CachedCall ==
    /\ stage = "cache"
    /\ Len(cache.log) < MaxCacheEvents
    /\ \E method \in Methods, args \in ArgLists, kwargs \in KwargSets :
         LET key == KeyStr(method, args, kwargs)
             found == CacheGet(cache.store, key)
             result == IF found # <<>> THEN found[1]
                       ELSE Compute(method, args, kwargs)
         IN  cache' =
                [store |-> IF found # <<>> THEN cache.store
                           ELSE Append(cache.store, [key |-> key, value |-> result]),
                 log |-> Append(cache.log,
                           [op |-> "call", method |-> method, args |-> args,
                            kwargs |-> kwargs, key |-> key,
                            invoked |-> found = <<>>, returned |-> result])]
    /\ UNCHANGED <<market, window_size, stage, df, columns, split, served, batch,
                 trainer, disk, predictor, fetches, calls, registry, tools>>

\* clear_cache()
ClearCache ==
    /\ stage = "cache"
    /\ Len(cache.log) < MaxCacheEvents
    /\ cache' = [store |-> <<>>, log |-> Append(cache.log, [op |-> "clear"])]
    /\ UNCHANGED <<market, window_size, stage, df, columns, split, served, batch,
                 trainer, disk, predictor, fetches, calls, registry, tools>>

\* TTLCache(ttl=3600): the oldest entries reach their time to live
Expire ==
    /\ stage = "cache"
    /\ Len(cache.log) < MaxCacheEvents
    /\ \E n \in 1..Len(cache.store) :
         cache' = [store |-> SubSeq(cache.store, n + 1, Len(cache.store)),
                   log |-> Append(cache.log, [op |-> "expire"])]
    /\ UNCHANGED <<market, window_size, stage, df, columns, split, served, batch,
                 trainer, disk, predictor, fetches, calls, registry, tools>>

NextCache ==
    \/ CachedCall
    \/ ClearCache
    \/ Expire

SpecCache == InitCache /\ [][NextCache]_vars

\* =================================================================== claims
\* the log returns of the symbol of row p, in date order
GroupReturns(p) == Column(GroupRows(df, df[p].ts_code), "log_return")

GroupSize(p) == Len(GroupRows(df, df[p].ts_code))

\* C1: after calculate_future_volatility, future_volatility of the row at
\* rank t of its symbol is the sample standard deviation of the log returns
\* of the rows at ranks t+1 .. t+window_size of that symbol (and is missing
\* when the symbol has fewer than window_size later rows).
C1_ForwardWindow ==
    stage = "target" =>
        \A p \in 1..Len(df) :
            LET t == RankIn(df, p)
            IN  df[p].future_volatility =
                    IF t + window_size <= GroupSize(p)
                    THEN Num(SampleStd(SubSeq(GroupReturns(p), t + 1, t + window_size)))
                    ELSE NaN

\* C2: after calculate_future_volatility on a symbol with more than
\* window_size rows, future_volatility is missing on exactly the last
\* window_size rows of the symbol.
C2_TailUndefined ==
    stage = "target" =>
        \A p \in 1..Len(df) :
            GroupSize(p) > window_size =>
                (IsNaN(df[p].future_volatility)
                    <=> RankIn(df, p) > GroupSize(p) - window_size)

FeatureNames ==
    {"close_lag1", "close_lag3", "close_lag5", "vol_lag1", "vol_lag3", "vol_lag5",
     "log_return_lag1", "log_return_lag3", "log_return_lag5",
     "MA_close_5", "MA_close_10", "MA_close_20", "RSI_14",
     "MACD", "Signal_Line", "MACD_Histogram", "day_of_week", "month"}

\* another close: the next power of two, cyclically
OtherClose(c) == Num(Pow2((Log2(V(c)) + 1) % (MaxExp + 2)))

\* the frame with other close and vol values in the row at position u
Perturbed(frame, u) ==
    [frame EXCEPT ![u].close = OtherClose(frame[u].close),
                  ![u].vol = Num(V(frame[u].vol) + 1)]

\* the frame add_features makes when the bar at position u is different
FeaturesIfPerturbed(u) ==
    AddFeaturesOp(CalculateFutureVolatilityOp(Perturbed(df, u), window_size))

\* C3: every feature column of a row depends only on that row and the
\* earlier rows of its symbol: with different close and vol in any one later
\* row of the symbol, add_features gives the row the same feature values.
C3_NoLookAhead ==
    stage = "features" =>
        \A u \in 1..Len(df) :
            LET alt == FeaturesIfPerturbed(u)
            IN  \A p \in 1..(u - 1) :
                    df[p].ts_code = df[u].ts_code =>
                        \A c \in FeatureNames : alt[p][c] = df[p][c]

\* a row with every feature defined has a later row of its symbol
C3_Witness ==
    /\ stage = "features"
    /\ \E p \in 1..Len(df) :
         /\ p < Len(df)
         /\ df[p + 1].ts_code = df[p].ts_code
         /\ \A c \in FeatureNames : ~IsNaN(df[p][c])

\* C4: the columns of the feature vectors given to the learner are the same
\* in training (prepare_data) and in serving (predict): all columns except
\* ts_code, trade_date, log_return and future_volatility, which is in no
\* feature vector.
C4_SameFeatureColumns ==
    (stage = "served" /\ served.raised = "") =>
        /\ served.locals.feature_cols = split.columns
        /\ Range(split.columns) =
              Range(columns) \ {"ts_code", "trade_date", "log_return", "future_volatility"}
        /\ \A i \in 1..Len(served.locals.X) :
              DOMAIN served.locals.X[i] = Range(split.columns) \cup {"idx"}
        /\ \A i \in 1..Len(split.X_train) :
              DOMAIN split.X_train[i] = Range(split.columns) \cup {"idx"}

\* a model was given training rows and a prediction was served
C4_Witness ==
    /\ stage = "served"
    /\ served.raised = ""
    /\ Len(split.X_train) > 0
    /\ Len(served.locals.X) > 0

\* C5: predict returns one record for every feature-complete row of the
\* request, the rows without a future_volatility included.
C5_AllFeatureCompleteRowsReturned ==
    (stage = "served" /\ served.raised = "") =>
        /\ Len(served.result.predictions) = Len(served.locals.X)
        /\ {served.result.predictions[j].trade_date :
                j \in 1..Len(served.result.predictions)}
             = {Loc(served.locals.df_feat, served.locals.X[i].idx).trade_date :
                i \in 1..Len(served.locals.X)}

IsPayload(r) == "metrics" \in DOMAIN r

IsErrorMarker(r) == "error" \in DOMAIN r

\* what predict does for the symbol at position i of the batch
OutcomeAt(i) ==
    PredictOp(market, FittedModel, batch.stock_codes[i], window_size, "asc")

\* C6: predict_batch returns one entry per input symbol, at the symbol's own
\* position: the result dict of predict, or the marker {ts_code, error} when
\* predict raised; no exception leaves the loop and the symbols after a
\* failing one are processed.
C6_BatchIsolation ==
    /\ batch.pc \in {"idle", "loop", "done"}
    /\ batch.pc = "loop" => Len(batch.results) = batch.i
    /\ batch.pc = "done" =>
          /\ Len(batch.results) = Len(batch.stock_codes)
          /\ \A i \in 1..Len(batch.stock_codes) :
                LET outcome == OutcomeAt(i)
                IN  /\ batch.results[i].ts_code = batch.stock_codes[i]
                    /\ outcome.raised # "" =>
                          batch.results[i] = [ts_code |-> batch.stock_codes[i],
                                              error |-> outcome.raised]
                    /\ outcome.raised = "" =>
                          batch.results[i] = outcome.result

\* a failing symbol between two symbols that are served
C6_Witness ==
    /\ batch.pc = "done"
    /\ Len(batch.results) = 3
    /\ IsPayload(batch.results[1])
    /\ IsErrorMarker(batch.results[2])
    /\ IsPayload(batch.results[3])

\* C7 (as claimed): the success count is the number of result dicts, that is
\* the number of symbols minus the number of error markers.
C7_CountsAllPayloads ==
    batch.pc = "done" =>
        batch.success_count =
            Len(batch.stock_codes)
              - Cardinality({i \in 1..Len(batch.results) :
                                IsErrorMarker(batch.results[i])})

\* C7 (amended): the success count is the number of result dicts that have
\* at least one scored row; error markers and result dicts without a
\* scoreable row are not counted.
C7_CountsScoredPayloads ==
    batch.pc = "done" =>
        batch.success_count =
            Cardinality({i \in 1..Len(batch.results) :
                            /\ IsPayload(batch.results[i])
                            /\ batch.results[i].valid_predictions > 0})

\* a batch with a scored result, a result without scoreable rows and a marker
C7_Witness ==
    /\ batch.pc = "done"
    /\ \E i, j, k \in 1..Len(batch.results) :
         /\ IsPayload(batch.results[i]) /\ batch.results[i].valid_predictions > 0
         /\ IsPayload(batch.results[j]) /\ batch.results[j].valid_predictions = 0
         /\ IsErrorMarker(batch.results[k])

\* the rows of the served frame that are feature-complete and have a target
Scoreable(frame) ==
    SelectSeq(frame, LAMBDA r :
        /\ ~IsNaN(r.future_volatility)
        /\ \A c \in Range(served.locals.feature_cols) : ~IsNaN(r[c]))

\* C8: every (date, actual, predicted) triple that predict scores and lists
\* is made of one row: the row's trade_date, its future_volatility and the
\* learner's output for its feature vector; the scored rows are exactly the
\* feature-complete rows with a target, each once, and the metrics are those
\* of these pairs.
C8_RowAligned ==
    (stage = "served" /\ served.raised = "") =>
        LET avp == served.result.actual_vs_predicted
            rows == Scoreable(served.locals.df_feat)
        IN  /\ Len(avp) = Len(rows)
            /\ Len(served.result.predictions) = Len(rows)
            /\ \A j \in 1..Len(rows) :
                  /\ avp[j] = <<StrFTime(rows[j].trade_date),
                                V(rows[j].future_volatility),
                                LearnerPredict(FittedModel, rows[j])>>
                  /\ served.result.predictions[j] =
                        [trade_date |-> rows[j].trade_date,
                         predicted_volatility |-> LearnerPredict(FittedModel, rows[j])]
            /\ served.result.metrics =
                  PredictMetrics(Tup([j \in 1..Len(avp) |-> avp[j][2]]),
                                 Tup([j \in 1..Len(avp) |-> avp[j][3]]))

\* the source returned the rows out of date order, rows were dropped before
\* and after the scored ones, and the scored rows have different predictions
C8_Witness ==
    /\ stage = "served"
    /\ served.raised = ""
    /\ served.call[2] # "asc"
    /\ Len(served.result.actual_vs_predicted) >= 2
    /\ served.result.actual_vs_predicted[1][3] # served.result.actual_vs_predicted[2][3]
    /\ Len(served.locals.X) > Len(served.result.actual_vs_predicted)
    /\ Len(served.locals.df_feat) > Len(served.locals.X)

SegmentLabels == Index(split.X_train) \o Index(split.X_val) \o Index(split.X_test)

DateOfLabel(l) == Loc(ReadCsv(df), l).trade_date

\* C9: prepare_data cuts the date-sorted table of n rows by position into
\* the first int(n * 0.7) rows, the next int(n * 0.15) rows and the rest:
\* the segments are disjoint, hold every row once and follow each other in
\* the sorted order.
C9_Partition ==
    stage = "prepared" =>
        LET n == Len(df)
            tr == Index(split.X_train)
            va == Index(split.X_val)
            te == Index(split.X_test)
        IN  /\ Len(tr) = (n * 70) \div 100
            /\ Len(va) = (n * 15) \div 100
            /\ Len(tr) + Len(va) + Len(te) = n
            /\ Len(split.y_train) = Len(tr)
            /\ Len(split.y_val) = Len(va)
            /\ Len(split.y_test) = Len(te)
            /\ Range(tr) \cap Range(va) = {}
            /\ Range(tr) \cap Range(te) = {}
            /\ Range(va) \cap Range(te) = {}
            /\ Range(SegmentLabels) = Range(Index(ReadCsv(df)))
            /\ Cardinality(Range(SegmentLabels)) = n
            /\ \A i, j \in 1..Len(SegmentLabels) :
                  i < j => DateOfLabel(SegmentLabels[i]) <= DateOfLabel(SegmentLabels[j])

\* a split with three non-empty segments
C9_Witness ==
    /\ stage = "prepared"
    /\ Len(split.X_train) > 0
    /\ Len(split.X_val) > 0
    /\ Len(split.X_test) > 0

SegmentPairs == <<<<split.X_train, split.y_train>>, <<split.X_val, split.y_val>>,
                  <<split.X_test, split.y_test>>>>

NotAfter(xs1, xs2) ==
    \A i \in 1..Len(xs1), j \in 1..Len(xs2) :
        DateOfLabel(xs1[i].idx) <= DateOfLabel(xs2[j].idx)

\* C10: whatever the row order and symbols of the file, no train row is
\* dated after a validation row, no validation row after a test row, and the
\* feature row and the label at one position of a segment are the columns
\* of one and the same row of the file.
C10_ChronologicalAndPaired ==
    stage = "prepared" =>
        /\ NotAfter(split.X_train, split.X_val)
        /\ NotAfter(split.X_val, split.X_test)
        /\ NotAfter(split.X_train, split.X_test)
        /\ \A s \in 1..3 :
              \A i \in 1..Len(SegmentPairs[s][1]) :
                 LET x == SegmentPairs[s][1][i]
                     y == SegmentPairs[s][2][i]
                     row == Loc(ReadCsv(df), x.idx)
                 IN  /\ y.idx = x.idx
                     /\ y.future_volatility = row.future_volatility
                     /\ \A c \in Range(split.columns) : x[c] = row[c]

\* a file of two symbols, not in date order, split into non-empty segments
C10_Witness ==
    /\ stage = "prepared"
    /\ Len(split.X_train) > 0
    /\ Len(split.X_val) > 0
    /\ Len(split.X_test) > 0
    /\ Cardinality(CodesOf(df)) = 2
    /\ \E i, j \in 1..Len(df) : i < j /\ df[i].trade_date > df[j].trade_date

\* the bars of every symbol of the source in one frame, in a given row order
MixedFrame(order) == WithRangeIndex(Reorder(market.A \o market.B, order))

\* the bars of one symbol alone, in a given row order
AloneFrame(c, order) == WithRangeIndex(Reorder(market[c], order))

\* the rows of symbol c of a frame, without their labels
RowsOfSymbol(frame, c) == DropIndex(SelectSeq(frame, LAMBDA r : r.ts_code = c))

\* C11: the derived columns of a symbol's rows are the same whether the
\* symbol goes through calculate_future_volatility and add_features alone
\* or together with the rows of the other symbol, in every input row order;
\* the frame of the features file holds these same rows.
C11_PerSymbolIndependent ==
    stage = "features" =>
        \A c \in CodesOf(df) :
            LET alone == DropIndex(PrepareFeatures(AloneFrame(c, "asc"), window_size))
            IN  /\ RowsOfSymbol(df, c) = alone
                /\ \A order \in Orders :
                      /\ DropIndex(PrepareFeatures(AloneFrame(c, order), window_size))
                            = alone
                      /\ RowsOfSymbol(PrepareFeatures(MixedFrame(order), window_size), c)
                            = alone

\* two symbols in the frame, each with a defined lag, one with a full
\* 20-day average
C11_Witness ==
    /\ stage = "features"
    /\ \E p, q \in 1..Len(df) :
         /\ df[p].ts_code = "A" /\ ~IsNaN(df[p].MA_close_20)
         /\ df[q].ts_code = "B" /\ ~IsNaN(df[q].log_return_lag1)
                                /\ ~IsNaN(df[q].future_volatility)

\* the frame create_features hands to clean_data
FeaturesFrame ==
    AddFeaturesOp(CalculateFutureVolatilityOp(
        ReadCsv(KlineDataset(AllData(market, "asc"))), window_size))

\* log_return, future_volatility and the derived features
GeneratedColumns == ValueColumns(columns) \ Range(RawColumns)

NoMissing(r, cols) == \A c \in cols : ~IsNaN(r[c])

\* C12 (as claimed): clean_data removes a row if and only if the row has a
\* missing value in a generated column; no remaining row has a missing
\* value, and the kept rows keep their values and order.
C12_RemovesIffGeneratedMissing ==
    stage = "cleaned" =>
        /\ df = SelectSeq(FeaturesFrame, LAMBDA r : NoMissing(r, GeneratedColumns))
        /\ \A p \in 1..Len(df) : NoMissing(df[p], ValueColumns(columns))

\* C12 (amended): clean_data removes a row if and only if the row has a
\* missing value in some column, raw or generated; no remaining row has a
\* missing value, and the kept rows keep their values and order.
C12_RemovesIffAnyMissing ==
    stage = "cleaned" =>
        /\ df = SelectSeq(FeaturesFrame, LAMBDA r : NoMissing(r, ValueColumns(columns)))
        /\ \A p \in 1..Len(df) : NoMissing(df[p], ValueColumns(columns))

\* rows were kept, rows were removed for a missing generated value, and a
\* row with every generated value was removed for an empty raw cell
C12_Witness ==
    /\ stage = "cleaned"
    /\ Len(df) > 0
    /\ \E p \in 1..Len(FeaturesFrame) : ~NoMissing(FeaturesFrame[p], GeneratedColumns)
    /\ \E p \in 1..Len(FeaturesFrame) :
         /\ NoMissing(FeaturesFrame[p], GeneratedColumns)
         /\ IsNaN(FeaturesFrame[p].open)

\* the bars the source has for the symbol of the served call
ServedBars ==
    IF served.call[1] \in DOMAIN market THEN market[served.call[1]] ELSE <<>>

\* the feature-complete rows of the served symbol
ServedComplete ==
    LET feat == PrepareFeatures(WithRangeIndex(ServedBars), window_size)
        cols == Range(FeatureColumns(TargetColumns(RawColumns))) \ columns_to_drop
    IN  SelectSeq(feat, LAMBDA r : NoMissing(r, cols))

\* self.model.predict was called during the served predict
ModelInvoked == served.locals.predictions # <<>>

\* C13: predict raises to its caller, without a payload and without calling
\* the model, when the source has no rows for the symbol (None or an empty
\* frame: "no data") and when no row is feature-complete ("no valid rows");
\* it returns a payload exactly when a feature-complete row exists.
C13_SurfacesFailures ==
    (stage = "served" /\ served.call[1] # "ERR") =>
        LET complete == ServedComplete
        IN  /\ ServedBars = <<>> =>
                  /\ served.raised = "ValueError: no data"
                  /\ served.result = <<>>
                  /\ ~ModelInvoked
            /\ (ServedBars # <<>> /\ complete = <<>>) =>
                  /\ served.raised = "ValueError: no valid rows"
                  /\ served.result = <<>>
                  /\ ~ModelInvoked
            /\ complete # <<>> =>
                  /\ served.raised = ""
                  /\ ModelInvoked

\* the source has bars, too few for a feature-complete row
C13_Witness ==
    /\ stage = "served"
    /\ ServedBars # <<>>
    /\ served.raised = "ValueError: no valid rows"
    /\ ~ModelInvoked

\* number of scoreable rows of the served request
ScoreableCount == Len(Scoreable(served.locals.df_feat))

\* C15 (as claimed): the four metrics of predict are all non-null exactly
\* when a scoreable row exists; with no scoreable row predict returns with
\* all four null.
C15_AllMetricsIffScoreable ==
    (stage = "served" /\ served.raised = "") =>
        LET mt == served.result.metrics
            all_set == ~IsNaN(mt.mae) /\ ~IsNaN(mt.mse) /\ ~IsNaN(mt.rmse) /\ ~IsNaN(mt.r2)
            all_null == IsNaN(mt.mae) /\ IsNaN(mt.mse) /\ IsNaN(mt.rmse) /\ IsNaN(mt.r2)
        IN  /\ all_set <=> ScoreableCount >= 1
            /\ ScoreableCount = 0 => all_null

\* C15 (amended): mae, mse and rmse are non-null exactly when a scoreable
\* row exists, r2 is non-null exactly when two or more scoreable rows exist;
\* with no scoreable row predict returns with all four null.
C15_MetricsByScoreableCount ==
    (stage = "served" /\ served.raised = "") =>
        LET mt == served.result.metrics
        IN  /\ ~IsNaN(mt.mae) <=> ScoreableCount >= 1
            /\ ~IsNaN(mt.mse) <=> ScoreableCount >= 1
            /\ ~IsNaN(mt.rmse) <=> ScoreableCount >= 1
            /\ ~IsNaN(mt.r2) <=> ScoreableCount >= 2

\* a request with exactly one scoreable row: errors reported, r2 null
C15_Witness ==
    /\ stage = "served"
    /\ served.raised = ""
    /\ ScoreableCount = 1
    /\ ~IsNaN(served.result.metrics.mae)
    /\ IsNaN(served.result.metrics.r2)

\* the ground truth evaluate scores: the labels of the test rows
TestTruth == Tup([i \in 1..Len(split.y_test) |-> V(split.y_test[i].future_volatility)])

\* the ground truth predict scores: the actual values of the scoreable rows
ServedTruth ==
    Tup([j \in 1..Len(served.result.actual_vs_predicted) |->
            served.result.actual_vs_predicted[j][2]])

\* SS_tot = 0: one or more values, all of them equal
ZeroVariance(y) == Len(y) >= 1 /\ \A i \in 1..Len(y) : y[i] = y[1]

\* C14: when the ground truth scored is all equal, evaluate (test set) and
\* predict (scoreable rows) report r2 as a missing value, and mae, mse and
\* rmse as numbers.
C14_R2NullOnZeroVariance ==
    /\ (stage = "evaluated" /\ ZeroVariance(TestTruth)) =>
          /\ IsNaN(trainer.test_metrics.r2)
          /\ ~IsNaN(trainer.test_metrics.mae)
          /\ ~IsNaN(trainer.test_metrics.mse)
          /\ ~IsNaN(trainer.test_metrics.rmse)
    /\ (stage = "served" /\ served.raised = "" /\ ZeroVariance(ServedTruth)) =>
          /\ IsNaN(served.result.metrics.r2)
          /\ ~IsNaN(served.result.metrics.mae)
          /\ ~IsNaN(served.result.metrics.mse)
          /\ ~IsNaN(served.result.metrics.rmse)

\* the handle the training run fitted and save_model pickled
SavedHandle == Fit(split.X_train, split.y_train)

\* C16: after a save_model that returned, load_model on the same paths
\* returns without raising, the handle it restores gives the outputs of the
\* saved handle, and the dict it returns equals the dict save_model wrote.
C16_SaveLoadRoundTrip ==
    (stage = "loaded" /\ trainer.saved # <<>>) =>
        /\ trainer.raised = ""
        /\ ModelPredict(trainer.model, split.X_test)
              = ModelPredict(SavedHandle, split.X_test)
        /\ DOMAIN trainer.loaded = DOMAIN trainer.saved
        /\ \A k \in DOMAIN trainer.saved : trainer.loaded[k] = trainer.saved[k]

\* a model saved by a training run and loaded again, with test rows to
\* compare the two handles on
C16_Witness ==
    /\ stage = "loaded"
    /\ trainer.saved # <<>>
    /\ trainer.model # NoModel
    /\ Len(split.X_test) >= 1
    /\ trainer.loaded.test_samples = [int |-> Len(split.X_test)]

\* the metadata record in the file a training run wrote
WrittenMetadata == JsonLoad(disk.files[trainer.metadata_path])

\* some key of the record holds the list of the feature columns trained on
HasFeatureColumnList(md) ==
    \E k \in DOMAIN md : md[k] = [list |-> split.columns]

\* C17: the metadata record a training run writes holds the model type,
\* the target description, the feature column list, the training timestamp,
\* the train, validation and test sample counts and the test metrics.
C17_MetadataComplete ==
    stage = "saved" =>
        LET md == WrittenMetadata
        IN  /\ {"model_type", "target", "training_date", "train_samples",
                "val_samples", "test_samples", "test_metrics"} \subseteq DOMAIN md
            /\ md.train_samples = [int |-> Len(split.X_train)]
            /\ md.val_samples = [int |-> Len(split.X_val)]
            /\ md.test_samples = [int |-> Len(split.X_test)]
            /\ md.test_metrics = [obj |-> JsonFloats(trainer.test_metrics)]
            /\ HasFeatureColumnList(md)

\* a file of the artifact pair is missing, the other one missing too or as
\* save_model wrote it
PairMissing ==
    LET mf == disk.files[DefaultModelPath]
        jf == disk.files[MetadataPath(DefaultModelPath)]
    IN  /\ mf = Absent \/ jf = Absent
        /\ mf # Partial
        /\ jf # Partial

\* C18: with the model file or the metadata file missing, load_model, the
\* construction of a predictor, predict_stock and predict_batch all raise
\* FileNotFoundError to their caller; no model is run and predict_batch
\* makes no entry for any symbol.
C18_MissingArtifactIsFatal ==
    PairMissing =>
        /\ stage \in {"loaded", "load_failed"} =>
              /\ stage = "load_failed"
              /\ trainer.raised = "FileNotFoundError"
        /\ stage \in {"ready", "no_predictor"} =>
              /\ stage = "no_predictor"
              /\ served.raised = "FileNotFoundError"
        /\ stage = "served" =>
              /\ served.raised = "FileNotFoundError"
              /\ ~ModelInvoked
        /\ batch.pc # "idle" =>
              /\ batch.pc = "raised"
              /\ batch.raised = "FileNotFoundError"
              /\ batch.results = <<>>

\* C19: between operations no file handle is open: save_model, load_model
\* and the predictor's _load_model release every handle they opened, whether
\* they returned or raised.
C19_NoHandleLeftOpen == disk.handles = {}

\* a save that failed while writing the metadata, then a load that failed
\* decoding it: both error paths taken, nothing left open
C19_Witness ==
    /\ stage = "load_failed"
    /\ trainer.raised = "JSONDecodeError"
    /\ disk.files[DefaultModelPath].kind = "pickle"
    /\ disk.files[MetadataPath(DefaultModelPath)] = Partial
    /\ disk.handles = {}

\* C20: a predict call changes neither the loaded handle and the other
\* fields of the predictor, nor the artifact files, nor the trainer; the
\* same call made again on the same rows returns what the first returned.
C20_PredictIsPure ==
    [][(stage' \in {"served", "served_twice"} /\ stage' # stage) =>
          /\ predictor' = predictor
          /\ disk' = disk
          /\ trainer' = trainer
          /\ stage' = "served_twice" =>
                /\ served'.raised = served.raised
                /\ served'.result = served.result]_vars

\* a request answered twice with predictions, by a predictor loaded from
\* the artifact of the training run
C20_Witness ==
    /\ stage = "served_twice"
    /\ served.raised = ""
    /\ Len(served.result.predictions) >= 1
    /\ predictor.model = SavedHandle

\* the two files of the default artifact
ArtifactPair ==
    <<disk.files[DefaultModelPath], disk.files[MetadataPath(DefaultModelPath)]>>

\* the pair as the earlier run left it, and when there was no earlier run
EarlierPairs ==
    {<<d.files[DefaultModelPath], d.files[MetadataPath(DefaultModelPath)]>> :
        d \in {EmptyDisk, ServingDisk}}

\* C25: the model file and the metadata file are always those of one
\* training run: the pair an earlier run left (or no file at all), or, once
\* save_model has returned, the pair of this run; a run that raised during
\* training, evaluation or save_model leaves the earlier pair as it was.
C25_PairOfOneRun ==
    /\ \/ ArtifactPair \in EarlierPairs
       \/ /\ trainer.saved # <<>>
          /\ ArtifactPair = <<PickleDump(SavedHandle), JsonDump(trainer.saved)>>
    /\ stage \in {"train_failed", "evaluate_failed", "save_failed"} =>
          ArtifactPair \in EarlierPairs

\* C24: wherever add_features defines RSI_14 it lies between 0 and 100,
\* also on the rows whose smoothed average loss is zero.
C24_RsiBounded ==
    stage = "features" =>
        \A p \in 1..Len(df) :
            ~IsNaN(df[p].RSI_14) =>
                /\ 0 <= V(df[p].RSI_14)
                /\ V(df[p].RSI_14) <= 100 * Scale

\* a table with a row of RSI 100 (gains and no loss so far), a row of RSI 0
\* (losses and no gain so far) and a row strictly between
C24_Witness ==
    /\ stage = "features"
    /\ \E p \in 1..Len(df) : df[p].RSI_14 = Num(100 * Scale)
    /\ \E p \in 1..Len(df) : df[p].RSI_14 = Num(0)
    /\ \E p \in 1..Len(df) :
          /\ ~IsNaN(df[p].RSI_14)
          /\ 0 < V(df[p].RSI_14)
          /\ V(df[p].RSI_14) < 100 * Scale

\* C22: predict_batch has made exactly one fetch for each symbol it has
\* gone through, in input order, whether the predict call of the symbol
\* returned or raised; no bars are fetched again or reused.
C22_OneFetchPerSymbol ==
    batch.pc \in {"loop", "done"} =>
        fetches = SubSeq(batch.stock_codes, 1, batch.i)

\* a finished batch that named one symbol twice, with a call that raised
\* and a call that returned
C22_Witness ==
    /\ batch.pc = "done"
    /\ Len(batch.stock_codes) >= 3
    /\ batch.stock_codes[1] = batch.stock_codes[2]
    /\ \E i \in 1..Len(batch.results) : "error" \in DOMAIN batch.results[i]
    /\ \E i \in 1..Len(batch.results) : "metrics" \in DOMAIN batch.results[i]
    /\ fetches = batch.stock_codes

\* within each symbol the dates of the frame increase strictly from row to
\* row: no (ts_code, trade_date) pair is there twice
StrictlyIncreasing(frame) ==
    \A p, q \in 1..Len(frame) :
        (p < q /\ frame[p].ts_code = frame[q].ts_code) =>
            frame[p].trade_date < frame[q].trade_date

\* C23: the dataset get_stock_kline_dataset writes and the frame
\* calculate_future_volatility returns, in training and in predict, have
\* strictly increasing dates per symbol, whatever rows the source returned.
C23_StrictlyIncreasingDates ==
    /\ stage \in {"dataset", "target"} => StrictlyIncreasing(df)
    /\ (stage = "served" /\ served.raised = "") =>
          StrictlyIncreasing(served.locals.df_feat)

\* the close changes between two of the first 20 bars
HasEarlyChange(bars) ==
    \E k \in 1..(Min2(Len(bars), 20) - 1) : bars[k].close # bars[k + 1].close

\* C27: for a symbol whose bars have no missing value and whose close
\* changes within the first 20 bars, predict raises "no valid rows" exactly
\* when there are fewer than 20 bars; otherwise the model is run on the
\* n - 19 rows that have 19 or more earlier rows, and on no other row.
C27_CompleteFromTwentiethRow ==
    (stage = "served" /\ HasEarlyChange(ServedBars)) =>
        LET n == Len(ServedBars)
            X == served.locals.X
        IN  /\ served.raised = "ValueError: no valid rows" <=> n < 20
            /\ n >= 20 =>
                  /\ served.raised = ""
                  /\ Len(served.locals.predictions) = n - 19
                  /\ {Loc(served.locals.df_feat, X[i].idx).trade_date : i \in 1..Len(X)}
                       = {ServedBars[k].trade_date : k \in 20..n}

\* a series of 21 bars or more served with its first 19 rows left out
C27_Witness ==
    /\ stage = "served"
    /\ HasEarlyChange(ServedBars)
    /\ Len(ServedBars) >= 21
    /\ Len(served.locals.predictions) = Len(ServedBars) - 19

\* C26: load_model for a model path under which a model was saved returns
\* the metadata that save_model wrote with that model, whatever was saved
\* under other model paths in between.
C26_MetadataOfItsModel ==
    (stage = "paths_loaded" /\ registry[trainer.model_path] # <<>>) =>
        /\ trainer.raised = ""
        /\ trainer.loaded = registry[trainer.model_path]

\* C21: predict calls for distinct symbols that overlap on one loaded
\* predictor leave the predictor and the artifact as they were, and under
\* every interleaving of their steps each finished call holds the result the
\* same call gives when it runs alone
C21_OverlappingCallsAsAlone ==
    stage = "calls" =>
        /\ predictor = LoadedPredictor
        /\ disk = ServingDisk
        /\ \A i \in 1..Len(calls) :
             calls[i].pc = "done" =>
                calls[i].outcome = PredictOp(market, LoadedPredictor.model,
                                             calls[i].ts_code, window_size,
                                             calls[i].order)

\* two calls that were both in flight after their fetch have finished, each
\* with predictions
C21_Witness ==
    /\ stage = "calls"
    /\ Len(fetches) = MaxCalls
    /\ \A i \in 1..Len(calls) :
         /\ calls[i].pc = "done"
         /\ calls[i].outcome.raised = ""
         /\ calls[i].outcome.locals.predictions # <<>>

\* C28: in one process at most one VolatilityPredictor is ever constructed
\* (the model file is loaded at most once), and every tool call that got a
\* predictor from _get_predictor got that first one
C28_OneLoadPerProcess ==
    stage = "tools" =>
        /\ Len(tools.objects) <= 1
        /\ \A t \in 1..Len(tools.threads) :
             tools.threads[t].pc = "done" => tools.threads[t].returned = 1

\* the events of the cache that are calls of wrapped methods
CallEvents == {n \in 1..Len(cache.log) : cache.log[n].op = "call"}

\* the two calls give the same values (or none) at the listed positions
AgreeOnListed(args_keys, args1, args2) ==
    \A n \in 1..Len(args_keys) :
        /\ (args_keys[n] < Len(args1)) = (args_keys[n] < Len(args2))
        /\ args_keys[n] < Len(args1) =>
              args1[args_keys[n] + 1] = args2[args_keys[n] + 1]

\* C29: for a method decorated with a list of indices, a call that follows,
\* with no flush or expiry in between, a call of the same method with the
\* same positional arguments at the listed indices has the same key and
\* returns the cached result without invoking the method, whatever its
\* other arguments are
C29_OnlyListedArgumentsInKey ==
    stage = "cache" =>
        \A i, j \in CallEvents :
            ( /\ i < j
              /\ \A n \in i..j : n \in CallEvents
              /\ cache.log[i].method = cache.log[j].method
              /\ cache.log[i].method.args_keys # <<>>
              /\ AgreeOnListed(cache.log[i].method.args_keys,
                               cache.log[i].args, cache.log[j].args) )
            => /\ cache.log[j].key = cache.log[i].key
               /\ ~cache.log[j].invoked
               /\ cache.log[j].returned = cache.log[i].returned

\* C30: for methods decorated without indices, calls that differ in the
\* method, its class or any argument have different keys, and every call
\* returns the result computed for its own method and arguments
C30_NoResultOfAnotherCall ==
    stage = "cache" =>
        \A i, j \in CallEvents :
            ( /\ cache.log[i].method.args_keys = <<>>
              /\ cache.log[j].method.args_keys = <<>> )
            => /\ ( \/ cache.log[i].method # cache.log[j].method
                    \/ cache.log[i].args # cache.log[j].args
                    \/ cache.log[i].kwargs # cache.log[j].kwargs )
                  => cache.log[i].key # cache.log[j].key
               /\ cache.log[j].returned =
                    Compute(cache.log[j].method, cache.log[j].args,
                            cache.log[j].kwargs)

====
